---------------------------- MODULE Spec2Model ----------------------------
(***************************************************************************)
(* State-machine model of the C boundary layer in src/src/lib.rs: the two  *)
(* handle registries (STREAMS, WRITERS), the two handle counters, the      *)
(* per-thread LAST_ERROR slot, the reference-counted stream and            *)
(* WriterState objects, and every exported nominal_* function, split into  *)
(* atomic steps at the points where the code touches shared state or       *)
(* blocks (a lock acquisition, RUNTIME.block_on).                          *)
(*                                                                         *)
(* Text is modelled as sequences of byte values (ASCII codes); a caller's  *)
(* output buffer is a sequence of cells, Unwritten until the code stores   *)
(* a byte in it, with a flag `oob` that records a store at or past the     *)
(* buffer's capacity.                                                      *)
(***************************************************************************)
EXTENDS Integers, Sequences, FiniteSets, TLC

\* ------------------------------------------------------------------ bounds
MaxStreams == 2      \* stream objects constructed in one behaviour
MaxWriters == 2      \* WriterState objects constructed in one behaviour
MaxSamples == 2      \* samples pushed in one behaviour
MaxCount == 2        \* largest batch count a caller passes
MaxSmallBuf == 3     \* small buffer capacities 0..MaxSmallBuf are all tried
MaxFlushes == 2       \* engine flushes counted per stream
MaxTagLen == 5       \* longest tag string passed to parse_tags_csv

\* ------------------------------------------------------------- error codes
SUCCESS == 0
ERROR_GENERIC == -1
ERROR_INVALID_HANDLE == -2
ERROR_INVALID_PARAM == -3
ERROR_RUNTIME == -4

\* -------------------------------------------------------------------- text
\* "Null pointer provided"
TxtNullPointer ==
    << 78, 117, 108, 108, 32, 112, 111, 105, 110, 116, 101, 114, 32, 112, 114, 111, 118, 105, 100, 101, 100 >>
\* "Invalid UTF-8 string: "
TxtInvalidUtf8 ==
    << 73, 110, 118, 97, 108, 105, 100, 32, 85, 84, 70, 45, 56, 32, 115, 116, 114, 105, 110, 103, 58, 32 >>
\* "Output handle pointer is null"
TxtOutNull ==
    << 79, 117, 116, 112, 117, 116, 32, 104, 97, 110, 100, 108, 101, 32, 112, 111, 105, 110, 116, 101, 114, 32, 105, 115, 32, 110, 117, 108, 108 >>
\* "Invalid token: "
TxtInvalidToken ==
    << 73, 110, 118, 97, 108, 105, 100, 32, 116, 111, 107, 101, 110, 58, 32 >>
\* "Invalid dataset RID: "
TxtInvalidRid ==
    << 73, 110, 118, 97, 108, 105, 100, 32, 100, 97, 116, 97, 115, 101, 116, 32, 82, 73, 68, 58, 32 >>
\* "Invalid fallback path: "
TxtInvalidFallback ==
    << 73, 110, 118, 97, 108, 105, 100, 32, 102, 97, 108, 108, 98, 97, 99, 107, 32, 112, 97, 116, 104, 58, 32 >>
\* "Invalid bearer token: "
TxtInvalidBearer ==
    << 73, 110, 118, 97, 108, 105, 100, 32, 98, 101, 97, 114, 101, 114, 32, 116, 111, 107, 101, 110, 58, 32 >>
\* "Either token or fallback file path must be provided"
TxtEitherToken ==
    << 69, 105, 116, 104, 101, 114, 32, 116, 111, 107, 101, 110, 32, 111, 114, 32, 102, 97, 108, 108, 98, 97, 99, 107, 32, 102, 105, 108, 101, 32, 112, 97, 116, 104, 32, 109, 117, 115, 116, 32, 98, 101, 32, 112, 114, 111, 118, 105, 100, 101, 100 >>
\* "Invalid stream handle: "
TxtInvalidStream ==
    << 73, 110, 118, 97, 108, 105, 100, 32, 115, 116, 114, 101, 97, 109, 32, 104, 97, 110, 100, 108, 101, 58, 32 >>
\* "Invalid channel name: "
TxtInvalidChannelName ==
    << 73, 110, 118, 97, 108, 105, 100, 32, 99, 104, 97, 110, 110, 101, 108, 32, 110, 97, 109, 101, 58, 32 >>
\* "Invalid tags CSV: "
TxtInvalidTags ==
    << 73, 110, 118, 97, 108, 105, 100, 32, 116, 97, 103, 115, 32, 67, 83, 86, 58, 32 >>
\* "Null pointer provided for data arrays"
TxtNullArrays ==
    << 78, 117, 108, 108, 32, 112, 111, 105, 110, 116, 101, 114, 32, 112, 114, 111, 118, 105, 100, 101, 100, 32, 102, 111, 114, 32, 100, 97, 116, 97, 32, 97, 114, 114, 97, 121, 115 >>
\* "Invalid writer handle: "
TxtInvalidWriter ==
    << 73, 110, 118, 97, 108, 105, 100, 32, 119, 114, 105, 116, 101, 114, 32, 104, 97, 110, 100, 108, 101, 58, 32 >>
\* "Flush failed: "
TxtFlushFailed ==
    << 70, 108, 117, 115, 104, 32, 102, 97, 105, 108, 101, 100, 58, 32 >>
\* "Channel flush failed: "
TxtChannelFlushFailed ==
    << 67, 104, 97, 110, 110, 101, 108, 32, 102, 108, 117, 115, 104, 32, 102, 97, 105, 108, 101, 100, 58, 32 >>
\* "Invalid string at index "
TxtInvalidStringAt ==
    << 73, 110, 118, 97, 108, 105, 100, 32, 115, 116, 114, 105, 110, 103, 32, 97, 116, 32, 105, 110, 100, 101, 120, 32 >>
\* ": "
TxtColonSpace ==
    << 58, 32 >>
\* "Invalid buffer parameters"
TxtInvalidBuffer ==
    << 73, 110, 118, 97, 108, 105, 100, 32, 98, 117, 102, 102, 101, 114, 32, 112, 97, 114, 97, 109, 101, 116, 101, 114, 115 >>
\* "invalid utf-8 sequence"
TxtUtf8Error ==
    << 105, 110, 118, 97, 108, 105, 100, 32, 117, 116, 102, 45, 56, 32, 115, 101, 113, 117, 101, 110, 99, 101 >>
\* "engine error"
TxtEngineError ==
    << 101, 110, 103, 105, 110, 101, 32, 101, 114, 114, 111, 114 >>
\* "0.1.0"
TxtVersion ==
    << 48, 46, 49, 46, 48 >>
\* "temp"
TxtTemp ==
    << 116, 101, 109, 112 >>

\* env!("CARGO_PKG_VERSION"): fixed at build time and not part of lib.rs; the
\* model takes the text as an input of nominal_get_version.
VersionTexts == {TxtVersion, TxtVersion \o TxtVersion}

\* Channel names a caller passes as valid text.
ChannelNames == {TxtTemp}

Min(a, b) == IF a <= b THEN a ELSE b

\* (mutant) the index is not formatted into the message
NoDigits(n) == << 48 >>

\* Decimal formatting of an unsigned integer, as format!("{}", n) does it.
RECURSIVE Digits(_)
Digits(n) == IF n < 10 THEN << 48 + n >> ELSE Digits(n \div 10) \o << 48 + (n % 10) >>

\* c_str_to_string on the three kinds of pointer a caller can pass: a null
\* pointer, bytes that are not UTF-8, valid text.  The result is Ok or the
\* Err text.
CStrKinds == {"null", "bad", "ok"}
c_str_to_string_err(kind) ==
    IF kind = "null" THEN TxtNullPointer ELSE TxtInvalidUtf8 \o TxtUtf8Error
c_str_to_string_ok(kind) == kind = "ok"

\* ------------------------------------------------------------------- state
Threads == {"A", "B"}
NoThread == "none"

VARIABLES
    NEXT_STREAM_HANDLE,   \* the counter behind allocate_stream_handle
    NEXT_WRITER_HANDLE,   \* the counter behind allocate_writer_handle
    STREAMS,              \* registry: handle -> stream object
    WRITERS,              \* registry: handle -> WriterState object
    streamObj,            \* every NominalDatasetStream constructed: strong count, engine log
    writerObj,            \* every WriterState constructed: strong count, stream, descriptor
    LAST_ERROR,           \* thread -> Option<String>
    frame,                \* thread -> the call it is in
    lastCall,             \* the call that returned in the step just taken, if one did
    held,                 \* thread -> the locks it holds between two steps
    allocated,            \* history: the handles each allocator has returned, in order
    issued,               \* history: << h, k >>: a create call returned h for the k-th time
    removed,              \* history: << h, k >>: a call removed h for the k-th time
    samplesLeft,          \* samples the callers may still pass (bounds the engine log)
    script,               \* how far the calls made so far follow the end-to-end scenario
    engine                \* per stream: engine flushes invoked, samples a flush has covered

regVars == << NEXT_STREAM_HANDLE, NEXT_WRITER_HANDLE, STREAMS, WRITERS >>
objVars == << streamObj, writerObj >>
histVars == << allocated, issued, removed >>
vars == << NEXT_STREAM_HANDLE, NEXT_WRITER_HANDLE, STREAMS, WRITERS, streamObj,
           writerObj, LAST_ERROR, frame, lastCall, held, allocated, issued, removed,
           samplesLeft, script, engine >>

\* Option<String>
None == [some |-> FALSE, msg |-> << >>]
Some(s) == [some |-> TRUE, msg |-> s]

\* A caller's output buffer of the given capacity: its cells, and whether a
\* byte has been stored at or past index capacity.
Unwritten == 0 - 1
NoBuffer == [cells |-> << >>, oob |-> FALSE]
FreshBuffer(capacity) == [cells |-> [k \in 1..capacity |-> Unwritten], oob |-> FALSE]

\* The engine flush a call has invoked: on which stream, with which result,
\* and how many of the stream's samples it covered; stream 0: none.
NoFlush == [stream |-> 0, ok |-> FALSE, upto |-> 0]

Frame0 ==
    [pc |-> "idle", op |-> "none", h |-> 0, ref |-> 0, n |-> 0, i |-> 0,
     args |-> << >>, ret |-> 0, out |-> 0, buf |-> NoBuffer, size |-> 0,
     handle |-> 0, text |-> << >>, status |-> "none", orphan |-> FALSE,
     flush |-> NoFlush, thread |-> NoThread]

\* The calling thread may start a call: it is in none.
CanCall(t) == frame[t].pc = "idle"

\* The record of a call that has returned `code`.
Returned(f, code) == [f EXCEPT !.pc = "done", !.ret = code]

\* The end-to-end scenario of a caller: nominal_init with no token and a
\* fallback path, nominal_create_channel on the stream it returned with
\* channel "temp" and a tag string, nominal_push_double_batch of one sample
\* through the writer it returned, nominal_flush_channel (the engine's flush
\* succeeding), nominal_close_channel, nominal_shutdown.  `sc` is the
\* scenario so far: the number of its calls made, the handles they returned,
\* their codes.  ScenarioCall: call c is the scenario's next call.  A call
\* that returned before reading all of its arguments has only the ones read.
ScenarioOps ==
    << "nominal_init", "nominal_create_channel", "nominal_push_double_batch",
       "nominal_flush_channel", "nominal_close_channel", "nominal_shutdown" >>

ScenarioLength == Len(ScenarioOps)

ScriptOff == [step |-> 0 - 1, stream |-> 0, writer |-> 0, rets |-> << >>]

ScriptStart == [step |-> 0, stream |-> 0, writer |-> 0, rets |-> << >>]

ScenarioCall(sc, c) ==
    /\ sc.step < ScenarioLength
    /\ c.op = ScenarioOps[sc.step + 1]
    /\ CASE sc.step = 0 ->
               c.op = "nominal_init" /\ c.args = << "ok", "null", "ok", "ok" >>
         [] sc.step = 1 ->
               /\ c.op = "nominal_create_channel"
               /\ c.h = sc.stream
               /\ c.args \in {<< "ok" >>, << "ok", "ok", "ok" >>}
               /\ c.text \in {<< >>, TxtTemp}
         [] sc.step = 2 ->
               /\ c.op = "nominal_push_double_batch"
               /\ c.h = sc.writer
               /\ c.args = << "ok", "ok" >>
               /\ c.n = 1
         [] sc.step = 3 ->
               /\ c.op = "nominal_flush_channel"
               /\ c.h = sc.writer
               /\ c.args # << FALSE >>
         [] sc.step = 4 -> c.op = "nominal_close_channel" /\ c.h = sc.writer
         [] sc.step = 5 -> c.op = "nominal_shutdown" /\ c.h = sc.stream
         [] OTHER -> FALSE

\* The scenario after call c has returned: one call further if c is its next
\* call, past its end (ScenarioLength + 1) if it was complete and c creates
\* no stream, and off otherwise.
ScriptAfter(sc, c) ==
    IF sc.step < 0 THEN sc
    ELSE IF sc.step >= ScenarioLength
    THEN (IF c.op = "nominal_init" THEN ScriptOff
          ELSE [sc EXCEPT !.step = ScenarioLength + 1])
    ELSE IF ScenarioCall(sc, c)
    THEN [step |-> sc.step + 1,
          stream |-> IF sc.step = 0 THEN c.out ELSE sc.stream,
          writer |-> IF sc.step = 1 THEN c.out ELSE sc.writer,
          rets |-> Append(sc.rets, c.ret)]
    ELSE ScriptOff

\* Thread t returns from its call: `result` becomes the last call returned.
\* (mutant) the flush covers none of the stream's samples
FlushNothing(s, ok) == [stream |-> s, ok |-> ok, upto |-> 0]

\* stream.flush() on stream object s, `ok` the engine's result: the engine
\* is asked to flush the stream, that is all the samples it holds.
StreamFlush(s, ok) == [stream |-> s, ok |-> ok, upto |-> Len(streamObj[s].log)]

\* (mutant) closing a writer flushes its stream
FlushAtClose(c) ==
    IF c.op = "nominal_close_channel" /\ c.h \in DOMAIN WRITERS
    THEN [stream |-> writerObj[WRITERS[c.h]].stream, ok |-> TRUE,
          upto |-> Len(streamObj[writerObj[WRITERS[c.h]].stream].log)]
    ELSE c.flush

\* The engine flush the returning call c has invoked: the one its
\* RUNTIME.block_on(...flush()) made, none for every other call.
FlushMade(c) == c.flush

\* The engine's flush records.  Off: flushes are not recorded.  On: for each
\* stream object the number of flush invocations and the number of its
\* samples covered by the last flush that succeeded.
EngineOff == [on |-> FALSE, flushes |-> << >>, flushed |-> << >>]
EngineOn == [on |-> TRUE, flushes |-> [s \in 1..MaxStreams |-> 0],
             flushed |-> [s \in 1..MaxStreams |-> 0]]
EngineAfter(e, fl) ==
    IF ~e.on \/ fl.stream = 0 THEN e
    ELSE [e EXCEPT !.flushes[fl.stream] = @ + 1,
                   !.flushed[fl.stream] = IF fl.ok THEN fl.upto ELSE @]

\* Stream object a thread inside a flush call is flushing, 0 for the others.
Flushing(u) ==
    IF frame[u].pc = "flush_block" THEN frame[u].ref
    ELSE IF frame[u].pc \in {"fc_lock", "fc_block"} THEN writerObj[frame[u].ref].stream
    ELSE 0

\* Where flushes are recorded the callers flush a stream MaxFlushes times at most.
FlushAllowed(s) ==
    engine.on =>
        engine.flushes[s] + Cardinality({u \in Threads : Flushing(u) = s}) < MaxFlushes

Return(t, result) ==
    /\ frame' = [frame EXCEPT ![t] = Frame0]
    /\ lastCall' = [result EXCEPT !.thread = t]
    /\ script' = ScriptAfter(script, result)
    /\ engine' = EngineAfter(engine, FlushMade(result))

\* Thread t goes on inside its call: the step returns from none.
Continue(t, f) ==
    /\ frame' = [frame EXCEPT ![t] = f]
    /\ lastCall' = Frame0
    /\ script' = script
    /\ engine' = engine

\* ---------------------------------------------------------- error channel
\* (mutant) one slot shared by all threads
SetEverySlot(slots, t, err) == [u \in Threads |-> Some(err)]

set_last_error(slots, t, err) == [slots EXCEPT ![t] = Some(err)]

clear_last_error(slots, t) == [slots EXCEPT ![t] = None]

\* ------------------------------------------------------ shared ownership
\* Arc::clone / drop of an Arc<NominalDatasetStream>: the object is released
\* when the strong count reaches 0.
CloneStream(objs, s) == [objs EXCEPT ![s].rc = @ + 1]

DropStream(objs, s) == [objs EXCEPT ![s].rc = @ - 1]

CloneWriter(objs, w) == [objs EXCEPT ![w].rc = @ + 1]

\* drop of an Arc<Mutex<WriterState>>: the last drop releases the WriterState
\* and with it the WriterState's own stream reference.
DropWriter(objs, w) == [objs EXCEPT ![w].rc = @ - 1]

StreamsAfterWriterDrop(w) ==
    IF writerObj[w].rc = 1 THEN DropStream(streamObj, writerObj[w].stream)
    ELSE streamObj

\* (mutant) lock() returns without waiting for the holder
NeverWaits(t, l) == TRUE

\* A registry or counter lock is taken and released inside one step; a
\* WriterState lock can stay held between steps.  A step that takes a lock
\* waits while another thread holds it.
LockFree(t, l) == \A u \in Threads \ {t} : l \notin held[u]

WriterLock(w) == << "WriterState", w >>

STREAMS_lock == << "STREAMS", 0 >>

WRITERS_lock == << "WRITERS", 0 >>

\* (mutant) the registry guard outlives the lookup
GuardKept(h, t, l) == [h EXCEPT ![t] = @ \cup {l}]

\* `let x = { let guard = REGISTRY.lock(); ... };`: the guard goes out of
\* scope at the end of the block, so the lookup's lock is released before
\* the call goes on.
GuardDropped(h, t, l) == [h EXCEPT ![t] = @ \ {l}]

\* (mutant) state_guard is still held when the function has returned
GuardLeaked(h, t, l) == h

\* state_guard goes out of scope when the function returns: the WriterState
\* lock is released.
GuardReleased(h, t, l) == [h EXCEPT ![t] = @ \ {l}]

Range(s) == {s[k] : k \in DOMAIN s}

\* A history of handles with multiplicity: the handles in it, and it with
\* one more occurrence of h.
Handles(hist) == {e[1] : e \in hist}

Times(hist, h) == Cardinality({e \in hist : e[1] = h})

Record(hist, h) == hist \cup {<< h, Times(hist, h) + 1 >>}

\* The handles of a class that a successful close / shutdown has removed.
Removed(class) == Handles(removed[class])

Registry(class) == IF class = "stream" THEN STREAMS ELSE WRITERS

\* What a handle passed to a call is as the call starts: "removed" by an
\* earlier close / shutdown, "live" in its registry, or "unknown" to it.
HandleStatus(class, h) ==
    IF h \in Removed(class) THEN "removed"
    ELSE IF h \in DOMAIN Registry(class) THEN "live"
    ELSE "unknown"

\* A live writer handle whose stream is no longer in STREAMS.
Orphan(h) ==
    /\ h \in DOMAIN WRITERS
    /\ writerObj[WRITERS[h]].stream \notin Range(STREAMS)

\* HashMap::insert, HashMap::remove, on a registry held as a function.
MapInsert(map, key, obj) ==
    [k \in (DOMAIN map) \cup {key} |-> IF k = key THEN obj ELSE map[k]]

MapRemove(map, key) == [k \in (DOMAIN map) \ {key} |-> map[k]]

\* allocate_stream_handle / allocate_writer_handle, under the counter's lock:
\* the value returned and the value left in the counter.
\* (mutant) the counter is advanced before it is read
AllocatedAfterAdvance(next) == next + 1

AllocatedHandle(next) == next

\* (mutant) the counter is read and left as it is
CounterNotAdvanced(next) == next

CounterAfterAllocate(next) == next + 1

\* Threads inside a call at one of the given places.
At(places) == {u \in Threads : frame[u].pc \in places}

\* The state of a fresh process; `samples` is the number of samples the
\* callers are going to pass.
InitBudget(samples) ==
    /\ NEXT_STREAM_HANDLE = 1
    /\ NEXT_WRITER_HANDLE = 1
    /\ STREAMS = << >>
    /\ WRITERS = << >>
    /\ streamObj = << >>
    /\ writerObj = << >>
    /\ LAST_ERROR = [t \in Threads |-> None]
    /\ frame = [t \in Threads |-> Frame0]
    /\ lastCall = Frame0
    /\ held = [t \in Threads |-> {}]
    /\ allocated = [stream |-> << >>, writer |-> << >>]
    /\ issued = [stream |-> {}, writer |-> {}]
    /\ removed = [stream |-> {}, writer |-> {}]
    /\ samplesLeft = samples

Init == InitBudget(MaxSamples) /\ script = ScriptOff /\ engine = EngineOff

\* ------------------------------------------------------------ nominal_init
\* Entry to the block_on call: the error slot is cleared and the four
\* pointers are checked.  `out`, `token`, `rid`, `fallback` are the kinds of
\* pointer passed.
InitEntry(t, out, token, rid, fallback) ==
    LET f == [Frame0 EXCEPT !.op = "nominal_init",
                            !.args = << out, token, rid, fallback >>]
        cleared == clear_last_error(LAST_ERROR, t)
        fail(text) ==
            /\ LAST_ERROR' = set_last_error(cleared, t, text)
            /\ Return(t, Returned(f, ERROR_INVALID_PARAM))
    IN  /\ IF out = "null" THEN fail(TxtOutNull)
           ELSE IF token = "bad"
             THEN fail(TxtInvalidToken \o c_str_to_string_err(token))
           ELSE IF ~c_str_to_string_ok(rid)
             THEN fail(TxtInvalidRid \o c_str_to_string_err(rid))
           ELSE IF fallback = "bad"
             THEN fail(TxtInvalidFallback \o c_str_to_string_err(fallback))
           ELSE /\ LAST_ERROR' = cleared
                /\ Continue(t, [f EXCEPT !.pc = "init_build"])
        /\ UNCHANGED << regVars, objVars, histVars, held, samplesLeft >>

CallInit(t, limit, outs, tokens, rids, fallbacks) ==
    /\ CanCall(t)
    /\ Len(streamObj) + Cardinality(At({"init_build"})) < limit
    /\ \E out \in outs, token \in tokens, rid \in rids, fallback \in fallbacks :
          InitEntry(t, out, token, rid, fallback)

\* The async block run by RUNTIME.block_on on the calling thread.  `env` says
\* whether NOMINAL_TOKEN is set; `tokenOk` and `ridOk` are the engine's
\* verdicts (BearerToken::new, ResourceIdentifier::new).
InitBuild(t, envs) ==
    /\ frame[t].pc = "init_build"
    /\ \E env \in envs, tokenOk \in BOOLEAN, ridOk \in BOOLEAN :
          LET f == frame[t]
              token == f.args[2]
              fallback == f.args[4]
              should_stream_to_core == token = "ok" \/ env = "set"
              fail(text) ==
                  /\ LAST_ERROR' = set_last_error(LAST_ERROR, t, text)
                  /\ Return(t, Returned(f, ERROR_INVALID_PARAM))
                  /\ UNCHANGED streamObj
              built ==
                  /\ streamObj' = Append(streamObj, [rc |-> 1, log |-> << >>])
                  /\ Continue(t, [f EXCEPT !.pc = "init_alloc",
                                           !.ref = Len(streamObj) + 1])
                  /\ UNCHANGED LAST_ERROR
          IN  IF should_stream_to_core
              THEN IF ~tokenOk THEN fail(TxtInvalidBearer \o TxtEngineError)
                   ELSE IF ~ridOk THEN fail(TxtInvalidRid \o TxtEngineError)
                   ELSE built
              ELSE IF fallback = "ok" THEN built
              ELSE fail(TxtEitherToken)
    /\ UNCHANGED << regVars, writerObj, histVars, held, samplesLeft >>

\* let handle = allocate_stream_handle();
InitAllocate(t) ==
    /\ frame[t].pc = "init_alloc"
    /\ NEXT_STREAM_HANDLE' = CounterAfterAllocate(NEXT_STREAM_HANDLE)
    /\ Continue(t, [frame[t] EXCEPT !.pc = "init_insert",
                              !.handle = AllocatedHandle(NEXT_STREAM_HANDLE)])
    /\ allocated' = [allocated EXCEPT
                        !.stream = Append(@, AllocatedHandle(NEXT_STREAM_HANDLE))]
    /\ UNCHANGED << NEXT_WRITER_HANDLE, STREAMS, WRITERS, objVars, LAST_ERROR,
                    held, issued, removed, samplesLeft >>

\* STREAMS.lock().insert(handle, Arc::new(stream)); *out_stream_handle = handle;
\* an entry the insert replaces is dropped.
InitInsert(t) ==
    /\ frame[t].pc = "init_insert"
    /\ LockFree(t, STREAMS_lock)
    /\ LET f == frame[t] IN
          /\ STREAMS' = MapInsert(STREAMS, f.handle, f.ref)
          /\ streamObj' = IF f.handle \in DOMAIN STREAMS
                          THEN DropStream(streamObj, STREAMS[f.handle])
                          ELSE streamObj
          /\ issued' = [issued EXCEPT !.stream = Record(@, f.handle)]
          /\ Return(t, Returned([f EXCEPT !.out = f.handle, !.ref = 0], SUCCESS))
    /\ UNCHANGED << NEXT_STREAM_HANDLE, NEXT_WRITER_HANDLE, WRITERS, writerObj,
                    LAST_ERROR, held, allocated, removed, samplesLeft >>

\* -------------------------------------------------- nominal_create_channel
\* Entry: clear the slot, check the output pointer, then look the stream up
\* and clone its Arc under the STREAMS lock.
CallCreateChannel(t, limit, handles, outs) ==
    /\ CanCall(t)
    /\ LockFree(t, STREAMS_lock)
    /\ \E h \in handles, out \in outs :
          LET f == [Frame0 EXCEPT !.op = "nominal_create_channel", !.h = h,
                                  !.args = << out >>,
                                  !.status = HandleStatus("stream", h)]
              cleared == clear_last_error(LAST_ERROR, t)
          IN  IF out = "null"
              THEN /\ LAST_ERROR' = set_last_error(cleared, t, TxtOutNull)
                   /\ Return(t, Returned(f, ERROR_INVALID_PARAM))
                   /\ UNCHANGED streamObj
              ELSE IF h \in DOMAIN STREAMS
              THEN /\ Len(writerObj) + Cardinality(At({"cc_parse", "cc_insert"}))
                        < limit
                   /\ LAST_ERROR' = cleared
                   /\ streamObj' = CloneStream(streamObj, STREAMS[h])
                   /\ Continue(t, [f EXCEPT !.pc = "cc_parse", !.ref = STREAMS[h]])
              ELSE /\ LAST_ERROR' =
                          set_last_error(cleared, t, TxtInvalidStream \o Digits(h))
                   /\ Return(t, Returned(f, ERROR_INVALID_HANDLE))
                   /\ UNCHANGED streamObj
    /\ held' = GuardDropped(held, t, STREAMS_lock)
    /\ UNCHANGED << regVars, writerObj, histVars, samplesLeft >>

\* The two strings are decoded and the tags parsed; a failure returns and
\* drops the cloned stream reference.  Otherwise the writer handle is
\* allocated.  `name` and `tags` are the kinds of pointer passed, `text` the
\* channel name behind a valid one.
\* (mutant) the handle is allocated before the name and the tags are parsed
CounterConsumed(next) == next + 1

\* allocate_writer_handle() is called after the channel name and the tags
\* have been parsed: a return before it leaves the counter as it was.
CounterAtEarlyReturn(next) == next

CreateParse(t, nameKinds, texts, tagKinds) ==
    /\ frame[t].pc = "cc_parse"
    /\ \E name \in nameKinds, text \in texts, tags \in tagKinds :
          LET f == [frame[t] EXCEPT !.args = << frame[t].args[1], name, tags >>,
                                    !.text = IF name = "ok" THEN text ELSE << >>]
              fail(err) ==
                  /\ LAST_ERROR' = set_last_error(LAST_ERROR, t, err)
                  /\ streamObj' = DropStream(streamObj, f.ref)
                  /\ Return(t, Returned([f EXCEPT !.ref = 0], ERROR_INVALID_PARAM))
                  /\ NEXT_WRITER_HANDLE' = CounterAtEarlyReturn(NEXT_WRITER_HANDLE)
                  /\ UNCHANGED allocated
          IN  IF ~c_str_to_string_ok(name)
              THEN fail(TxtInvalidChannelName \o c_str_to_string_err(name))
              ELSE IF tags = "bad"
              THEN fail(TxtInvalidTags \o c_str_to_string_err(tags))
              ELSE /\ NEXT_WRITER_HANDLE' = CounterAfterAllocate(NEXT_WRITER_HANDLE)
                   /\ allocated' = [allocated EXCEPT !.writer =
                                      Append(@, AllocatedHandle(NEXT_WRITER_HANDLE))]
                   /\ Continue(t, [f EXCEPT !.pc = "cc_insert",
                                            !.handle = AllocatedHandle(NEXT_WRITER_HANDLE)])
                   /\ UNCHANGED << LAST_ERROR, streamObj >>
    /\ UNCHANGED << NEXT_STREAM_HANDLE, STREAMS, WRITERS, writerObj, held,
                    issued, removed, samplesLeft >>

\* HashMap::insert drops an entry it replaces: the stream objects once the
\* WriterState under `key`, if there is one and this was the last reference
\* to it, has released its stream.
StreamsAfterReplace(objs, key) ==
    IF key \in DOMAIN WRITERS /\ writerObj[WRITERS[key]].rc = 1
    THEN DropStream(objs, writerObj[WRITERS[key]].stream)
    ELSE objs

\* WriterState { stream: Arc::clone(&stream), descriptor } goes into WRITERS
\* under its lock; the function returns and drops its own `stream`.
CreateInsert(t) ==
    /\ frame[t].pc = "cc_insert"
    /\ LockFree(t, WRITERS_lock)
    /\ LET f == frame[t]
           w == Len(writerObj) + 1
           state == [rc |-> 1, stream |-> f.ref, name |-> f.text]
           replaced == IF f.handle \in DOMAIN WRITERS
                       THEN DropWriter(writerObj, WRITERS[f.handle])
                       ELSE writerObj
       IN  /\ writerObj' = Append(replaced, state)
           /\ streamObj' = DropStream(
                              StreamsAfterReplace(CloneStream(streamObj, f.ref), f.handle),
                              f.ref)
           /\ WRITERS' = MapInsert(WRITERS, f.handle, w)
           /\ issued' = [issued EXCEPT !.writer = Record(@, f.handle)]
           /\ Return(t, Returned([f EXCEPT !.out = f.handle, !.ref = 0], SUCCESS))
    /\ UNCHANGED << NEXT_STREAM_HANDLE, NEXT_WRITER_HANDLE, STREAMS, LAST_ERROR,
                    held, allocated, removed, samplesLeft >>

\* --------------------------------------------------- nominal_close_channel
\* (mutant) the entry is looked up with get and stays in the registry
CloseLeavesEntry(map, h) == map

\* WRITERS.lock().remove(&writer_handle), then drop(writer_arc).
CloseRemove(map, h) == MapRemove(map, h)

\* (mutant) close releases the WriterState whoever else refers to it
CloseFrees(objs, w) == [objs EXCEPT ![w].rc = 0]

\* drop(writer_arc): the reference the registry held is dropped.
CloseDrop(objs, w) == DropWriter(objs, w)

CallCloseChannel(t, handles) ==
    /\ CanCall(t)
    /\ LockFree(t, WRITERS_lock)
    /\ \E h \in handles :
          LET f == [Frame0 EXCEPT !.op = "nominal_close_channel", !.h = h,
                                  !.status = HandleStatus("writer", h),
                                  !.orphan = Orphan(h)]
              cleared == clear_last_error(LAST_ERROR, t)
          IN  IF h \in DOMAIN WRITERS
              THEN /\ WRITERS' = CloseRemove(WRITERS, h)
                   /\ writerObj' = CloseDrop(writerObj, WRITERS[h])
                   /\ streamObj' = StreamsAfterWriterDrop(WRITERS[h])
                   /\ removed' = [removed EXCEPT !.writer = Record(@, h)]
                   /\ LAST_ERROR' = cleared
                   /\ Return(t, Returned(f, SUCCESS))
              ELSE /\ LAST_ERROR' =
                          set_last_error(cleared, t, TxtInvalidWriter \o Digits(h))
                   /\ Return(t, Returned(f, ERROR_INVALID_HANDLE))
                   /\ UNCHANGED << WRITERS, objVars, removed >>
    /\ UNCHANGED << NEXT_STREAM_HANDLE, NEXT_WRITER_HANDLE, STREAMS, held,
                    allocated, issued, samplesLeft >>

\* -------------------------------------------------------- nominal_shutdown
\* (mutant) shutdown leaves the stream handle in the registry
ShutdownLeavesEntry(map, h) == map

\* STREAMS.lock().remove(&stream_handle)
ShutdownRemove(map, h) == MapRemove(map, h)

\* (mutant) shutdown releases the stream whoever else refers to it
ShutdownFrees(objs, s) == [objs EXCEPT ![s].rc = 0]

\* `_stream`, the reference the registry held, is dropped on return.
ShutdownDrop(objs, s) == DropStream(objs, s)

\* (mutant) shutdown also removes every writer handle bound to the stream
ShutdownCascades(s) ==
    [k \in {k \in DOMAIN WRITERS : writerObj[WRITERS[k]].stream # s} |-> WRITERS[k]]

\* nominal_shutdown does not touch WRITERS: the writers on the stream stay.
WritersAfterShutdown(s) == WRITERS

CallShutdown(t, handles) ==
    /\ CanCall(t)
    /\ LockFree(t, STREAMS_lock)
    /\ \E h \in handles :
          LET f == [Frame0 EXCEPT !.op = "nominal_shutdown", !.h = h,
                                  !.status = HandleStatus("stream", h)]
              cleared == clear_last_error(LAST_ERROR, t)
          IN  IF h \in DOMAIN STREAMS
              THEN /\ STREAMS' = ShutdownRemove(STREAMS, h)
                   /\ WRITERS' = WritersAfterShutdown(STREAMS[h])
                   /\ streamObj' = ShutdownDrop(streamObj, STREAMS[h])
                   /\ removed' = [removed EXCEPT !.stream = Record(@, h)]
                   /\ LAST_ERROR' = cleared
                   /\ Return(t, Returned(f, SUCCESS))
              ELSE /\ LAST_ERROR' =
                          set_last_error(cleared, t, TxtInvalidStream \o Digits(h))
                   /\ Return(t, Returned(f, ERROR_INVALID_HANDLE))
                   /\ UNCHANGED << STREAMS, WRITERS, streamObj, removed >>
    /\ UNCHANGED << NEXT_STREAM_HANDLE, NEXT_WRITER_HANDLE, writerObj, held,
                    allocated, issued, samplesLeft >>

\* ------------------------------------------------- nominal_push_*_batch
PushKinds == {"double", "int64", "bool", "string"}

PushOp(kind) ==
    CASE kind = "double" -> "nominal_push_double_batch"
      [] kind = "int64" -> "nominal_push_int64_batch"
      [] kind = "bool" -> "nominal_push_bool_batch"
      [] kind = "string" -> "nominal_push_string_batch"

PushOps == {PushOp(k) : k \in PushKinds}

\* The checks every typed push makes before it looks the handle up:
\* "null" (a null array pointer: invalid parameter), "empty" (count == 0:
\* success), "lookup" (go on to the registry).
PushPrecheck(ts, values, count) ==
    IF ts = "null" \/ values = "null" THEN "null"
    ELSE IF count = 0 THEN "empty"
    ELSE "lookup"

\* Entry of a typed push: clear the slot, check the pointers and the count,
\* then get and clone the writer's Arc under the WRITERS lock.
CallPush(t, kinds, handles, ptrs, counts) ==
    /\ CanCall(t)
    /\ LockFree(t, WRITERS_lock)
    /\ \E kind \in kinds, h \in handles, ts \in ptrs, values \in ptrs, count \in counts :
          LET f == [Frame0 EXCEPT !.op = PushOp(kind), !.h = h, !.n = count,
                                  !.args = << ts, values >>,
                                  !.status = HandleStatus("writer", h),
                                  !.orphan = Orphan(h)]
              cleared == clear_last_error(LAST_ERROR, t)
              check == PushPrecheck(ts, values, count)
          IN  IF check = "null"
              THEN /\ LAST_ERROR' = set_last_error(cleared, t, TxtNullArrays)
                   /\ Return(t, Returned(f, ERROR_INVALID_PARAM))
                   /\ UNCHANGED << writerObj, samplesLeft >>
              ELSE IF check = "empty"
              THEN /\ LAST_ERROR' = cleared
                   /\ Return(t, Returned(f, SUCCESS))
                   /\ UNCHANGED << writerObj, samplesLeft >>
              ELSE IF h \in DOMAIN WRITERS
              THEN /\ count <= samplesLeft
                   /\ samplesLeft' = samplesLeft - count
                   /\ LAST_ERROR' = cleared
                   /\ writerObj' = CloneWriter(writerObj, WRITERS[h])
                   /\ Continue(t, [f EXCEPT !.pc = "push_lock", !.ref = WRITERS[h]])
              ELSE /\ LAST_ERROR' =
                          set_last_error(cleared, t, TxtInvalidWriter \o Digits(h))
                   /\ Return(t, Returned(f, ERROR_INVALID_HANDLE))
                   /\ UNCHANGED << writerObj, samplesLeft >>
    /\ held' = GuardDropped(held, t, WRITERS_lock)
    /\ UNCHANGED << regVars, streamObj, histVars >>

\* let state_guard = writer_arc.lock();
PushLock(t) ==
    /\ frame[t].pc = "push_lock"
    /\ LockFree(t, WriterLock(frame[t].ref))
    /\ held' = [held EXCEPT ![t] = @ \cup {WriterLock(frame[t].ref)}]
    /\ Continue(t, [frame[t] EXCEPT !.pc = "push_loop"])
    /\ UNCHANGED << regVars, objVars, LAST_ERROR, histVars, samplesLeft >>

\* The function returns from inside or after the loop: state_guard is
\* released, then writer_arc is dropped.
PushReturn(t, f, code) ==
    /\ held' = GuardReleased(held, t, WriterLock(f.ref))
    /\ writerObj' = DropWriter(writerObj, f.ref)
    /\ Return(t, Returned([f EXCEPT !.ref = 0], code))

\* One iteration of `for i in 0..count`: writer.push(timestamp, value) on the
\* stream of the locked WriterState.  The string variant decodes element i
\* first (`elem`: the kind of pointer in values[i]) and returns at a bad one.
PushSample(t, elems) ==
    /\ frame[t].pc = "push_loop"
    /\ frame[t].i < frame[t].n
    /\ \E elem \in elems :
          LET f == frame[t]
              s == writerObj[f.ref].stream
              sample == [op |-> f.op, writer |-> f.ref, thread |-> t, index |-> f.i]
          IN  IF f.op = PushOp("string") /\ ~c_str_to_string_ok(elem)
              THEN /\ LAST_ERROR' = set_last_error(LAST_ERROR, t,
                          TxtInvalidStringAt \o Digits(f.i) \o TxtColonSpace
                              \o c_str_to_string_err(elem))
                   /\ PushReturn(t, f, ERROR_INVALID_PARAM)
                   /\ streamObj' = StreamsAfterWriterDrop(f.ref)
              ELSE /\ streamObj' = [streamObj EXCEPT ![s].log = Append(@, sample)]
                   /\ Continue(t, [frame[t] EXCEPT !.i = @ + 1])
                   /\ UNCHANGED << LAST_ERROR, writerObj, held >>
    /\ UNCHANGED << regVars, histVars, samplesLeft >>

PushExit(t) ==
    /\ frame[t].pc = "push_loop"
    /\ frame[t].i = frame[t].n
    /\ PushReturn(t, frame[t], SUCCESS)
    /\ streamObj' = StreamsAfterWriterDrop(frame[t].ref)
    /\ UNCHANGED << regVars, LAST_ERROR, histVars, samplesLeft >>

\* ----------------------------------------------------------- nominal_flush
CallFlush(t, handles) ==
    /\ CanCall(t)
    /\ LockFree(t, STREAMS_lock)
    /\ \E h \in handles :
          LET f == [Frame0 EXCEPT !.op = "nominal_flush", !.h = h,
                                  !.status = HandleStatus("stream", h)]
              cleared == clear_last_error(LAST_ERROR, t)
          IN  IF h \in DOMAIN STREAMS
              THEN /\ FlushAllowed(STREAMS[h])
                   /\ LAST_ERROR' = cleared
                   /\ streamObj' = CloneStream(streamObj, STREAMS[h])
                   /\ Continue(t, [f EXCEPT !.pc = "flush_block", !.ref = STREAMS[h]])
              ELSE /\ LAST_ERROR' =
                          set_last_error(cleared, t, TxtInvalidStream \o Digits(h))
                   /\ Return(t, Returned(f, ERROR_INVALID_HANDLE))
                   /\ UNCHANGED streamObj
    /\ held' = GuardDropped(held, t, STREAMS_lock)
    /\ UNCHANGED << regVars, writerObj, histVars, samplesLeft >>

\* RUNTIME.block_on(stream.flush()) completes; `ok` is the engine's result.
FlushComplete(t, results) ==
    /\ frame[t].pc = "flush_block"
    /\ \E ok \in results :
          LET f == [frame[t] EXCEPT !.args = << ok >>, !.ref = 0,
                                    !.flush = StreamFlush(frame[t].ref, ok)] IN
          /\ LAST_ERROR' = IF ok THEN LAST_ERROR
                           ELSE set_last_error(LAST_ERROR, t,
                                               TxtFlushFailed \o TxtEngineError)
          /\ Return(t, Returned(f, IF ok THEN SUCCESS ELSE ERROR_RUNTIME))
    /\ streamObj' = DropStream(streamObj, frame[t].ref)
    /\ UNCHANGED << regVars, writerObj, histVars, held, samplesLeft >>

\* --------------------------------------------------- nominal_flush_channel
CallFlushChannel(t, handles) ==
    /\ CanCall(t)
    /\ LockFree(t, WRITERS_lock)
    /\ \E h \in handles :
          LET f == [Frame0 EXCEPT !.op = "nominal_flush_channel", !.h = h,
                                  !.status = HandleStatus("writer", h),
                                  !.orphan = Orphan(h)]
              cleared == clear_last_error(LAST_ERROR, t)
          IN  IF h \in DOMAIN WRITERS
              THEN /\ FlushAllowed(writerObj[WRITERS[h]].stream)
                   /\ LAST_ERROR' = cleared
                   /\ writerObj' = CloneWriter(writerObj, WRITERS[h])
                   /\ Continue(t, [f EXCEPT !.pc = "fc_lock", !.ref = WRITERS[h]])
              ELSE /\ LAST_ERROR' =
                          set_last_error(cleared, t, TxtInvalidWriter \o Digits(h))
                   /\ Return(t, Returned(f, ERROR_INVALID_HANDLE))
                   /\ UNCHANGED writerObj
    /\ held' = GuardDropped(held, t, WRITERS_lock)
    /\ UNCHANGED << regVars, streamObj, histVars, samplesLeft >>

\* let state_guard = writer_arc.lock(); then RUNTIME.block_on(...) starts.
FlushChannelLock(t) ==
    /\ frame[t].pc = "fc_lock"
    /\ LockFree(t, WriterLock(frame[t].ref))
    /\ held' = [held EXCEPT ![t] = @ \cup {WriterLock(frame[t].ref)}]
    /\ Continue(t, [frame[t] EXCEPT !.pc = "fc_block"])
    /\ UNCHANGED << regVars, objVars, LAST_ERROR, histVars, samplesLeft >>

\* The flush of the WriterState's stream completes; state_guard is released
\* and writer_arc dropped on return.
FlushChannelComplete(t, results) ==
    /\ frame[t].pc = "fc_block"
    /\ \E ok \in results :
          LET f == [frame[t] EXCEPT !.args = << ok >>, !.ref = 0,
                        !.flush = StreamFlush(writerObj[frame[t].ref].stream, ok)] IN
          /\ LAST_ERROR' = IF ok THEN LAST_ERROR
                           ELSE set_last_error(LAST_ERROR, t,
                                               TxtChannelFlushFailed \o TxtEngineError)
          /\ Return(t, Returned(f, IF ok THEN SUCCESS ELSE ERROR_RUNTIME))
    /\ held' = GuardReleased(held, t, WriterLock(frame[t].ref))
    /\ writerObj' = DropWriter(writerObj, frame[t].ref)
    /\ streamObj' = StreamsAfterWriterDrop(frame[t].ref)
    /\ UNCHANGED << regVars, histVars, samplesLeft >>

\* ------------------------------------------------------------ text output
\* *buffer.add(idx) = byte
StoreByte(b, idx, byte) ==
    IF idx < Len(b.cells) THEN [b EXCEPT !.cells[idx + 1] = byte]
    ELSE [b EXCEPT !.oob = TRUE]

\* (mutant) the terminator's byte is not reserved
CopyWhole(len, buffer_size) == Min(len, buffer_size)

\* std::cmp::min(bytes.len(), buffer_size - 1) in usize arithmetic: 0 - 1
\* wraps to the largest usize, which no length exceeds.
CopyLen(len, buffer_size) ==
    IF buffer_size = 0 THEN len ELSE Min(len, buffer_size - 1)

\* copy_nonoverlapping(bytes, buffer, copy_len); *buffer.add(copy_len) = 0;
WriteText(b, bytes, buffer_size) ==
    LET copy_len == CopyLen(Len(bytes), buffer_size)
        copied == [cells |-> [k \in 1..Len(b.cells) |->
                                 IF k <= copy_len THEN bytes[k] ELSE b.cells[k]],
                   oob |-> b.oob \/ copy_len > Len(b.cells)]
    IN  StoreByte(copied, copy_len, 0)

\* (mutant) only the pointer is checked
BufferNull(buffer, buffer_size) == buffer = "null"

\* if buffer.is_null() || buffer_size == 0 { return ERROR_INVALID_PARAM; }
BufferRejected(buffer, buffer_size) == buffer = "null" \/ buffer_size = 0

\* The memory behind the pointer a caller passes with a size.
CallerBuffer(buffer, buffer_size) ==
    IF buffer = "null" THEN NoBuffer ELSE FreshBuffer(buffer_size)

\* -------------------------------------------------- nominal_get_last_error
CallGetLastError(t, buffers, sizes) ==
    /\ CanCall(t)
    /\ \E buffer \in buffers, buffer_size \in sizes :
          LET b == CallerBuffer(buffer, buffer_size)
              f == [Frame0 EXCEPT !.op = "nominal_get_last_error",
                                  !.args = << buffer >>, !.size = buffer_size,
                                  !.buf = b]
          IN  Return(t, IF BufferRejected(buffer, buffer_size)
                 THEN Returned(f, ERROR_INVALID_PARAM)
                 ELSE IF ~LAST_ERROR[t].some
                 THEN Returned([f EXCEPT !.buf = StoreByte(b, 0, 0)], ERROR_GENERIC)
                 ELSE Returned([f EXCEPT !.buf =
                                   WriteText(b, LAST_ERROR[t].msg, buffer_size)],
                               SUCCESS))
    /\ UNCHANGED << regVars, objVars, LAST_ERROR, histVars, held, samplesLeft >>

\* ----------------------------------------------------- nominal_get_version
CallGetVersion(t, buffers, sizes, versions) ==
    /\ CanCall(t)
    /\ \E buffer \in buffers, buffer_size \in sizes, version \in versions :
          LET b == CallerBuffer(buffer, buffer_size)
              f == [Frame0 EXCEPT !.op = "nominal_get_version",
                                  !.args = << buffer >>, !.text = version,
                                  !.size = buffer_size, !.buf = b]
          IN  Return(t, IF BufferRejected(buffer, buffer_size)
                 THEN Returned(f, ERROR_INVALID_PARAM)
                 ELSE Returned([f EXCEPT !.buf = WriteText(b, version, buffer_size)],
                               SUCCESS))
    /\ UNCHANGED << regVars, objVars, LAST_ERROR, histVars, held, samplesLeft >>

\* ------------------------------------------------ nominal_get_channel_name
CallGetChannelName(t, handles, buffers, sizes) ==
    /\ CanCall(t)
    /\ LockFree(t, WRITERS_lock)
    /\ \E h \in handles, buffer \in buffers, buffer_size \in sizes :
          LET f == [Frame0 EXCEPT !.op = "nominal_get_channel_name", !.h = h,
                                  !.args = << buffer >>, !.size = buffer_size,
                                  !.buf = CallerBuffer(buffer, buffer_size),
                                  !.status = HandleStatus("writer", h),
                                  !.orphan = Orphan(h)]
              cleared == clear_last_error(LAST_ERROR, t)
          IN  IF BufferRejected(buffer, buffer_size)
              THEN /\ LAST_ERROR' = set_last_error(cleared, t, TxtInvalidBuffer)
                   /\ Return(t, Returned(f, ERROR_INVALID_PARAM))
                   /\ UNCHANGED writerObj
              ELSE IF h \in DOMAIN WRITERS
              THEN /\ LAST_ERROR' = cleared
                   /\ writerObj' = CloneWriter(writerObj, WRITERS[h])
                   /\ Continue(t, [f EXCEPT !.pc = "name_lock", !.ref = WRITERS[h]])
              ELSE /\ LAST_ERROR' =
                          set_last_error(cleared, t, TxtInvalidWriter \o Digits(h))
                   /\ Return(t, Returned(f, ERROR_INVALID_HANDLE))
                   /\ UNCHANGED writerObj
    /\ held' = GuardDropped(held, t, WRITERS_lock)
    /\ UNCHANGED << regVars, streamObj, histVars, samplesLeft >>

\* let state_guard = writer_arc.lock(); the name is copied out, the guard
\* released and writer_arc dropped.
GetChannelNameCopy(t) ==
    /\ frame[t].pc = "name_lock"
    /\ LockFree(t, WriterLock(frame[t].ref))
    /\ LET f == frame[t] IN
          /\ Return(t, Returned([f EXCEPT !.ref = 0,
                                   !.text = writerObj[f.ref].name,
                                   !.buf = WriteText(f.buf, writerObj[f.ref].name, f.size)],
                         SUCCESS))
          /\ writerObj' = DropWriter(writerObj, f.ref)
          /\ streamObj' = StreamsAfterWriterDrop(f.ref)
    /\ UNCHANGED << regVars, LAST_ERROR, histVars, held, samplesLeft >>

\* --------------------------------------------------------- parse_tags_csv
\* str::split: the pieces of s between the occurrences of sep, in order; a
\* string without sep is its own single piece.
RECURSIVE SplitOn(_, _)
SplitOn(s, sep) ==
    IF \A k \in DOMAIN s : s[k] # sep THEN << s >>
    ELSE LET i == CHOOSE k \in DOMAIN s :
                     s[k] = sep /\ \A j \in 1..(k - 1) : s[j] # sep
         IN  << SubSeq(s, 1, i - 1) >> \o SplitOn(SubSeq(s, i + 1, Len(s)), sep)

\* The ASCII characters with the White_Space property.
WhiteSpace == {9, 10, 11, 12, 13, 32}

RECURSIVE TrimStart(_)
TrimStart(s) ==
    IF s # << >> /\ Head(s) \in WhiteSpace THEN TrimStart(Tail(s)) ELSE s

RECURSIVE TrimEnd(_)
TrimEnd(s) ==
    IF s # << >> /\ s[Len(s)] \in WhiteSpace
    THEN TrimEnd(SubSeq(s, 1, Len(s) - 1)) ELSE s

\* (mutant) the parts are returned as they are
Untrimmed(s) == s

\* str::trim
Trim(s) == TrimEnd(TrimStart(s))

\* The filter_map over the segments: a segment whose split at '=' has two
\* parts gives the pair of the trimmed parts, any other gives nothing.
RECURSIVE TagPairs(_)
TagPairs(segments) ==
    IF segments = << >> THEN << >>
    ELSE LET parts == SplitOn(Head(segments), 61)
         IN  (IF Len(parts) = 2 THEN << << Trim(parts[1]), Trim(parts[2]) >> >>
              ELSE << >>)
             \o TagPairs(Tail(segments))

parse_tags_csv(tags_csv) ==
    IF tags_csv = << >> THEN << >> ELSE TagPairs(SplitOn(tags_csv, 44))

\* Tag strings a caller passes: the strings of at most MaxTagLen characters
\* over a letter, '=', ',' and the space.
TagAlphabet == {97, 61, 44, 32}

TagStrings == UNION {[1..n -> TagAlphabet] : n \in 0..MaxTagLen}

\* A call of parse_tags_csv: `text` is its argument, `args` its result.
CallParseTags(t, inputs) ==
    /\ CanCall(t)
    /\ \E tags_csv \in inputs :
          Return(t, Returned([Frame0 EXCEPT !.op = "parse_tags_csv",
                                            !.text = tags_csv,
                                            !.args = parse_tags_csv(tags_csv)],
                             SUCCESS))
    /\ UNCHANGED << regVars, objVars, LAST_ERROR, histVars, held, samplesLeft >>

\* ------------------------------------------------------------- diagnostics
\* nominal_is_stream_valid, nominal_is_writer_valid
CallIsValid(t, handles) ==
    /\ CanCall(t)
    /\ LockFree(t, STREAMS_lock) /\ LockFree(t, WRITERS_lock)
    /\ \E h \in handles, class \in {"stream", "writer"} :
          Return(t, IF class = "stream"
             THEN Returned([Frame0 EXCEPT !.op = "nominal_is_stream_valid", !.h = h,
                                          !.status = HandleStatus("stream", h)],
                           IF h \in DOMAIN STREAMS THEN 1 ELSE 0)
             ELSE Returned([Frame0 EXCEPT !.op = "nominal_is_writer_valid", !.h = h,
                                          !.status = HandleStatus("writer", h),
                                          !.orphan = Orphan(h)],
                           IF h \in DOMAIN WRITERS THEN 1 ELSE 0))
    /\ UNCHANGED << regVars, objVars, LAST_ERROR, histVars, held, samplesLeft >>

\* nominal_get_active_streams, nominal_get_active_writers
CallGetActive(t) ==
    /\ CanCall(t)
    /\ LockFree(t, STREAMS_lock) /\ LockFree(t, WRITERS_lock)
    /\ \E class \in {"stream", "writer"} :
          Return(t, IF class = "stream"
             THEN Returned([Frame0 EXCEPT !.op = "nominal_get_active_streams"],
                           Cardinality(DOMAIN STREAMS))
             ELSE Returned([Frame0 EXCEPT !.op = "nominal_get_active_writers"],
                           Cardinality(DOMAIN WRITERS)))
    /\ UNCHANGED << regVars, objVars, LAST_ERROR, histVars, held, samplesLeft >>

\* ---------------------------------------------------------- specifications
\* Handles a caller passes: the ones the model can issue.
StreamHandles == 1..MaxStreams
WriterHandles == 1..MaxWriters

\* Creation and removal of handles by concurrent callers.
Next ==
    \E t \in Threads :
       \/ CallInit(t, MaxStreams, {"ok"}, {"null"}, {"ok"}, {"ok"})
       \/ InitBuild(t, {"unset"})
       \/ InitAllocate(t)
       \/ InitInsert(t)
       \/ CallCreateChannel(t, MaxWriters, StreamHandles, {"ok"})
       \/ CreateParse(t, {"ok"}, ChannelNames, {"null"})
       \/ CreateInsert(t)
       \/ CallCloseChannel(t, WriterHandles)
       \/ CallShutdown(t, StreamHandles)

Spec == Init /\ [][Next]_vars

\* One stream and the writers on it.  Thread "A" makes every call; thread "B"
\* races it with the calls that take a WriterState lock or remove a handle.
LifeOwner(t) ==
    \/ CallInit(t, 1, {"ok"}, {"null"}, {"ok"}, {"ok"})
    \/ InitBuild(t, {"unset"})
    \/ InitAllocate(t)
    \/ InitInsert(t)
    \/ CallCreateChannel(t, MaxWriters, {1}, {"ok"})
    \/ CreateParse(t, {"ok"}, ChannelNames, {"null"})
    \/ CreateInsert(t)
    \/ CallFlush(t, {1})
    \/ FlushComplete(t, BOOLEAN)
    \/ CallGetChannelName(t, WriterHandles, {"ok"}, {MaxSmallBuf})
    \/ GetChannelNameCopy(t)
    \/ CallIsValid(t, WriterHandles)

LifeAny(t) ==
    \/ CallPush(t, {"double"}, WriterHandles, {"ok"}, {1})
    \/ PushLock(t)
    \/ PushSample(t, {"ok"})
    \/ PushExit(t)
    \/ CallCloseChannel(t, WriterHandles)
    \/ CallShutdown(t, {1})
    \/ CallFlushChannel(t, WriterHandles)
    \/ FlushChannelLock(t)
    \/ FlushChannelComplete(t, BOOLEAN)

NextLife == LifeOwner("A") \/ \E t \in Threads : LifeAny(t)

SpecLife == Init /\ [][NextLife]_vars

\* The boundary calls with every kind of argument.  Thread "A" makes all of
\* them on one stream and one writer; thread "B" removes the handles
\* meanwhile.
PointerKinds == {"null", "ok"}
BigBuf == Len(TxtInvalidStringAt \o TxtColonSpace \o TxtInvalidUtf8 \o TxtUtf8Error) + 8
BufSizes == (0..MaxSmallBuf) \cup {BigBuf}

BoundaryOwner(t) ==
    \/ CallInit(t, 1, PointerKinds, CStrKinds, CStrKinds, CStrKinds)
    \/ InitBuild(t, {"unset", "set"})
    \/ InitAllocate(t)
    \/ InitInsert(t)
    \/ CallCreateChannel(t, 1, StreamHandles, PointerKinds)
    \/ CreateParse(t, CStrKinds, ChannelNames, CStrKinds)
    \/ CreateInsert(t)
    \/ CallPush(t, PushKinds, WriterHandles, PointerKinds, 0..(MaxCount - 1))
    \/ PushLock(t)
    \/ PushSample(t, CStrKinds)
    \/ PushExit(t)
    \/ CallFlush(t, StreamHandles)
    \/ FlushComplete(t, BOOLEAN)
    \/ CallFlushChannel(t, WriterHandles)
    \/ FlushChannelLock(t)
    \/ FlushChannelComplete(t, BOOLEAN)
    \/ CallGetChannelName(t, WriterHandles, PointerKinds, {0, BigBuf})
    \/ GetChannelNameCopy(t)
    \/ CallGetVersion(t, PointerKinds, {0, BigBuf}, {TxtVersion})
    \/ CallGetLastError(t, {"ok"}, {BigBuf})

BoundaryAny(t) ==
    \/ CallCloseChannel(t, {1})
    \/ CallShutdown(t, {1})

NextBoundary == BoundaryOwner("A") \/ \E t \in Threads : BoundaryAny(t)

SpecBoundary == Init /\ [][NextBoundary]_vars

\* The error slots and the three functions that copy text out.  Thread "A"
\* creates one stream and one writer and reads the name, the version and its
\* error slot into buffers of every small size; both threads fail calls and
\* read their own slot.
TextOwner(t) ==
    \/ CallInit(t, 1, {"ok"}, {"null"}, {"ok"}, {"ok"})
    \/ InitBuild(t, {"unset"})
    \/ InitAllocate(t)
    \/ InitInsert(t)
    \/ CallCreateChannel(t, 1, {1}, {"ok"})
    \/ CreateParse(t, {"ok"}, ChannelNames, {"null"})
    \/ CreateInsert(t)
    \/ CallGetChannelName(t, {1}, PointerKinds, BufSizes)
    \/ GetChannelNameCopy(t)
    \/ CallGetVersion(t, PointerKinds, BufSizes, VersionTexts)
    \/ CallIsValid(t, WriterHandles)
    \/ CallGetActive(t)

TextAny(t) ==
    \/ CallCloseChannel(t, WriterHandles)
    \/ CallShutdown(t, StreamHandles)
    \/ CallGetLastError(t, PointerKinds, BufSizes)

NextText == TextOwner("A") \/ \E t \in Threads : TextAny(t)

SpecText == Init /\ [][NextText]_vars

\* Batches of MaxCount samples pushed by both threads through the writers of
\* one stream, two batches in all.  Thread "A" creates the stream and the
\* writers first.
PushOwner(t) ==
    \/ CallInit(t, 1, {"ok"}, {"null"}, {"ok"}, {"ok"})
    \/ InitBuild(t, {"unset"})
    \/ InitAllocate(t)
    \/ InitInsert(t)
    \/ CallCreateChannel(t, MaxWriters, {1}, {"ok"})
    \/ CreateParse(t, {"ok"}, ChannelNames, {"null"})
    \/ CreateInsert(t)

PushAny(t) ==
    \/ CallPush(t, {"double", "string"}, WriterHandles, {"ok"}, {MaxCount})
    \/ PushLock(t)
    \/ PushSample(t, CStrKinds)
    \/ PushExit(t)

NextPush == PushOwner("A") \/ \E t \in Threads : PushAny(t)

InitPush == InitBudget(2 * MaxCount) /\ script = ScriptOff /\ engine = EngineOff

SpecPush == InitPush /\ [][NextPush]_vars

\* Flushes recorded by the engine.  Thread "A" creates one stream and its
\* writers, pushes, flushes the stream and shuts it down; both threads push,
\* flush through a writer and close writers.
FlushOwner(t) ==
    \/ CallInit(t, 1, {"ok"}, {"null"}, {"ok"}, {"ok"})
    \/ InitBuild(t, {"unset"})
    \/ InitAllocate(t)
    \/ InitInsert(t)
    \/ CallCreateChannel(t, MaxWriters, {1}, {"ok"})
    \/ CreateParse(t, {"ok"}, ChannelNames, {"null"})
    \/ CreateInsert(t)
    \/ CallFlush(t, {1})
    \/ FlushComplete(t, BOOLEAN)
    \/ CallShutdown(t, {1})

FlushAny(t) ==
    \/ CallPush(t, {"double"}, WriterHandles, {"ok"}, {1})
    \/ PushLock(t)
    \/ PushSample(t, {"ok"})
    \/ PushExit(t)
    \/ CallFlushChannel(t, WriterHandles)
    \/ FlushChannelLock(t)
    \/ FlushChannelComplete(t, BOOLEAN)
    \/ CallCloseChannel(t, WriterHandles)

NextFlush == FlushOwner("A") \/ \E t \in Threads : FlushAny(t)

InitFlush == InitBudget(MaxSamples) /\ script = ScriptOff /\ engine = EngineOn

SpecFlush == InitFlush /\ [][NextFlush]_vars

\* Locks.  Thread "A" creates one stream, flushes it and shuts it down; both
\* threads create writers on it, push, flush through writers, read channel
\* names, close writers and ask the registries.
LocksOwner(t) ==
    \/ CallInit(t, 1, {"ok"}, {"null"}, {"ok"}, {"ok"})
    \/ InitBuild(t, {"unset"})
    \/ InitAllocate(t)
    \/ InitInsert(t)
    \/ CallFlush(t, {1})
    \/ FlushComplete(t, {TRUE})
    \/ CallShutdown(t, {1})

LocksAny(t) ==
    \/ CallCreateChannel(t, MaxWriters, {1}, {"ok"})
    \/ CreateParse(t, {"ok"}, ChannelNames, {"null"})
    \/ CreateInsert(t)
    \/ CallPush(t, {"double"}, WriterHandles, {"ok"}, {1})
    \/ PushLock(t)
    \/ PushSample(t, {"ok"})
    \/ PushExit(t)
    \/ CallFlushChannel(t, WriterHandles)
    \/ FlushChannelLock(t)
    \/ FlushChannelComplete(t, {TRUE})
    \/ CallGetChannelName(t, WriterHandles, {"ok"}, {BigBuf})
    \/ GetChannelNameCopy(t)
    \/ CallCloseChannel(t, WriterHandles)
    \/ CallIsValid(t, {1})
    \/ CallGetActive(t)

NextLocks == LocksOwner("A") \/ \E t \in Threads : LocksAny(t)

InitLocks == InitBudget(1) /\ script = ScriptOff /\ engine = EngineOff

SpecLocks == InitLocks /\ [][NextLocks]_vars

\* What the scheduling gives a thread inside a call.  A block_on returns
\* once the engine's work has completed; a step that takes no lock is taken;
\* a step that takes a lock is taken if the lock is free again and again
\* (parking_lot hands a contended Mutex over fairly in the end).
BridgeSteps(t) ==
    \/ InitBuild(t, {"unset"})
    \/ FlushComplete(t, {TRUE})
    \/ FlushChannelComplete(t, {TRUE})

PlainSteps(t) ==
    \/ InitAllocate(t)
    \/ CreateParse(t, {"ok"}, ChannelNames, {"null"})
    \/ PushSample(t, {"ok"})
    \/ PushExit(t)

LockSteps(t) ==
    \/ InitInsert(t)
    \/ CreateInsert(t)
    \/ PushLock(t)
    \/ FlushChannelLock(t)
    \/ GetChannelNameCopy(t)

FairLocks ==
    \A t \in Threads :
        /\ WF_vars(BridgeSteps(t))
        /\ WF_vars(PlainSteps(t))
        /\ SF_vars(LockSteps(t))

\* The calls that take more than one step, by both threads, and the close of
\* a writer in between.
WaitOwner(t) ==
    \/ CallInit(t, 1, {"ok"}, {"null"}, {"ok"}, {"ok"})
    \/ InitBuild(t, {"unset"})
    \/ InitAllocate(t)
    \/ InitInsert(t)
    \/ CallFlush(t, {1})
    \/ FlushComplete(t, {TRUE})

WaitAny(t) ==
    \/ CallCreateChannel(t, MaxWriters, {1}, {"ok"})
    \/ CreateParse(t, {"ok"}, ChannelNames, {"null"})
    \/ CreateInsert(t)
    \/ CallPush(t, {"double"}, WriterHandles, {"ok"}, {1})
    \/ PushLock(t)
    \/ PushSample(t, {"ok"})
    \/ PushExit(t)
    \/ CallFlushChannel(t, WriterHandles)
    \/ FlushChannelLock(t)
    \/ FlushChannelComplete(t, {TRUE})
    \/ CallGetChannelName(t, WriterHandles, {"ok"}, {BigBuf})
    \/ GetChannelNameCopy(t)
    \/ CallCloseChannel(t, WriterHandles)

NextWait == WaitOwner("A") \/ \E t \in Threads : WaitAny(t)

SpecLocksFair == InitLocks /\ [][NextWait]_vars /\ FairLocks

\* Calls that fail next to calls that succeed.  Both threads create streams
\* and writers, with output pointers, fallback paths and channel names that
\* are or are not valid; thread "A" also pushes one string batch, flushes,
\* closes and shuts down, on handles that are or are not registered.
FailAny(t) ==
    \/ CallInit(t, MaxStreams, PointerKinds, {"null"}, {"ok"}, {"null", "ok"})
    \/ InitBuild(t, {"unset"})
    \/ InitAllocate(t)
    \/ InitInsert(t)
    \/ CallCreateChannel(t, MaxWriters, {1}, PointerKinds)
    \/ CreateParse(t, {"bad", "ok"}, ChannelNames, {"null"})
    \/ CreateInsert(t)

FailOwner(t) ==
    \/ CallPush(t, {"string"}, {1}, {"ok"}, {MaxCount})
    \/ PushLock(t)
    \/ PushSample(t, {"null", "ok"})
    \/ PushExit(t)
    \/ CallFlush(t, {1})
    \/ FlushComplete(t, BOOLEAN)
    \/ CallCloseChannel(t, {1})
    \/ CallShutdown(t, {1})

NextFail == FailOwner("A") \/ \E t \in Threads : FailAny(t)

InitFail == InitBudget(MaxCount) /\ script = ScriptOff /\ engine = EngineOff

SpecFail == InitFail /\ [][NextFail]_vars

\* A numeric push racing with the close of its writer.  Thread "A" creates
\* one stream and one writer on it; both threads push batches of MaxCount
\* numbers through the writer's handle, close it and shut the stream down.
RaceOwner(t) ==
    \/ CallInit(t, 1, {"ok"}, {"null"}, {"ok"}, {"ok"})
    \/ InitBuild(t, {"unset"})
    \/ InitAllocate(t)
    \/ InitInsert(t)
    \/ CallCreateChannel(t, 1, {1}, {"ok"})
    \/ CreateParse(t, {"ok"}, ChannelNames, {"null"})
    \/ CreateInsert(t)

RaceAny(t) ==
    \/ CallPush(t, {"double", "int64", "bool"}, {1}, {"ok"}, {MaxCount})
    \/ PushLock(t)
    \/ PushSample(t, {"ok"})
    \/ PushExit(t)
    \/ CallCloseChannel(t, {1})
    \/ CallShutdown(t, {1})

NextRace == RaceOwner("A") \/ \E t \in Threads : RaceAny(t)

SpecRace == InitPush /\ [][NextRace]_vars

\* One caller and every order of the scenario's calls, the scenario's own
\* order among them.
ScenarioCaller(t) ==
    \/ CallInit(t, MaxStreams, {"ok"}, {"null"}, {"ok"}, {"ok"})
    \/ InitBuild(t, {"unset"})
    \/ InitAllocate(t)
    \/ InitInsert(t)
    \/ CallCreateChannel(t, MaxWriters, StreamHandles, {"ok"})
    \/ CreateParse(t, {"ok"}, ChannelNames, {"ok"})
    \/ CreateInsert(t)
    \/ CallPush(t, {"double"}, WriterHandles, {"ok"}, {1})
    \/ PushLock(t)
    \/ PushSample(t, {"ok"})
    \/ PushExit(t)
    \/ CallFlushChannel(t, WriterHandles)
    \/ FlushChannelLock(t)
    \/ FlushChannelComplete(t, BOOLEAN)
    \/ CallCloseChannel(t, WriterHandles)
    \/ CallShutdown(t, StreamHandles)
    \/ CallIsValid(t, WriterHandles)
    \/ CallGetActive(t)

NextScenario == ScenarioCaller("A")

InitScenario == InitBudget(MaxSamples) /\ script = ScriptStart /\ engine = EngineOff

SpecScenario == InitScenario /\ [][NextScenario]_vars

\* parse_tags_csv on every tag string.
NextTags == CallParseTags("A", TagStrings)

SpecTags == Init /\ [][NextTags]_vars

\* ------------------------------------------------------------- properties
Classes == {"stream", "writer"}

\* The places of a call at which the thread's `ref` is a stream reference it
\* owns, and those at which it is a cloned WriterState reference.
StreamRefPlaces == {"init_alloc", "init_insert", "cc_parse", "cc_insert", "flush_block"}
WriterRefPlaces == {"push_lock", "push_loop", "fc_lock", "fc_block", "name_lock"}

\* The owners of a stream object: registry entries, WriterStates not yet
\* released, calls in flight.
StreamOwners(s) ==
    Cardinality({h \in DOMAIN STREAMS : STREAMS[h] = s})
    + Cardinality({w \in DOMAIN writerObj : writerObj[w].rc > 0 /\ writerObj[w].stream = s})
    + Cardinality({t \in Threads : frame[t].pc \in StreamRefPlaces /\ frame[t].ref = s})

WriterOwners(w) ==
    Cardinality({h \in DOMAIN WRITERS : WRITERS[h] = w})
    + Cardinality({t \in Threads : frame[t].pc \in WriterRefPlaces /\ frame[t].ref = w})

\* C1: per handle class the allocator returns 1 first and then strictly
\* greater values, the handles successful create calls return are pairwise
\* distinct, and a handle once removed from its registry is never in it again.
C1_HandlesUniqueIncreasing ==
    \A c \in Classes :
       /\ allocated[c] # << >> => allocated[c][1] = 1
       /\ \A i, j \in DOMAIN allocated[c] : i < j => allocated[c][i] < allocated[c][j]
       /\ \A h \in Handles(issued[c]) :
             Times(issued[c], h) = 1 /\ h \in Range(allocated[c])
       /\ Removed(c) \cap DOMAIN Registry(c) = {}

\* Both threads allocated a stream handle; the later one (2) was inserted
\* and shut down while the call holding 1 has not inserted it yet.
C1_Witness ==
    /\ allocated.stream = << 1, 2 >>
    /\ 2 \in Removed("stream")
    /\ \E t \in Threads : frame[t].pc = "init_insert" /\ frame[t].handle = 1

\* C3: of the close (shutdown) calls on one handle exactly one succeeds and
\* the others return invalid-handle, and the registry's reference is dropped
\* once: no handle is removed twice, a failed removal of a handle that was
\* issued means another call removed it, and no WriterState or stream is
\* dropped more often than it is owned.
C3_RemovalAtomic ==
    /\ \A c \in Classes : \A h \in Removed(c) : Times(removed[c], h) = 1
    /\ \A w \in DOMAIN writerObj : writerObj[w].rc = WriterOwners(w)
    /\ \A s \in DOMAIN streamObj : streamObj[s].rc >= 0
    /\ lastCall.op = "nominal_close_channel" =>
          /\ lastCall.ret \in {SUCCESS, ERROR_INVALID_HANDLE}
          /\ lastCall.ret = SUCCESS => lastCall.h \in Removed("writer")
          /\ (lastCall.ret # SUCCESS /\ lastCall.h \in Handles(issued.writer))
                => lastCall.h \in Removed("writer")
    /\ lastCall.op = "nominal_shutdown" =>
          /\ lastCall.ret \in {SUCCESS, ERROR_INVALID_HANDLE}
          /\ lastCall.ret = SUCCESS => lastCall.h \in Removed("stream")
          /\ (lastCall.ret # SUCCESS /\ lastCall.h \in Handles(issued.stream))
                => lastCall.h \in Removed("stream")

\* A close of an issued writer handle finds it already removed by the other
\* close and returns invalid-handle.
C3_Witness ==
    /\ lastCall.op = "nominal_close_channel"
    /\ lastCall.ret = ERROR_INVALID_HANDLE
    /\ lastCall.status = "removed"
    /\ lastCall.h \in Handles(issued.writer)

\* C4: a shutdown of a stream leaves the writer handles created on it alone.
\* Every writer handle issued and not closed is still registered, whether or
\* not its stream is; on a writer handle that is live when the call starts,
\* its stream already shut down, nominal_is_writer_valid returns 1, a push
\* and nominal_get_channel_name return success, and nominal_flush_channel
\* returns what the engine's flush gives, success when that flush succeeds;
\* the calls on the removed stream handle return invalid-handle (0 from
\* nominal_is_stream_valid).
C4_ShutdownKeepsWriters ==
    /\ Handles(issued.writer) \ Removed("writer") \subseteq DOMAIN WRITERS
    /\ (lastCall.orphan /\ lastCall.status = "live") =>
          /\ lastCall.op = "nominal_is_writer_valid" => lastCall.ret = 1
          /\ lastCall.op \in PushOps => lastCall.ret = SUCCESS
          /\ lastCall.op = "nominal_get_channel_name" => lastCall.ret = SUCCESS
          /\ lastCall.op = "nominal_flush_channel" =>
                lastCall.ret = IF lastCall.args[1] THEN SUCCESS ELSE ERROR_RUNTIME
    /\ lastCall.status = "removed" =>
          /\ lastCall.op \in {"nominal_flush", "nominal_shutdown",
                              "nominal_create_channel"} =>
                lastCall.ret = ERROR_INVALID_HANDLE
          /\ lastCall.op = "nominal_is_stream_valid" => lastCall.ret = 0

\* A push on a writer whose stream had been shut down before the call
\* started returns success, and the sample is in that stream.
C4_Witness ==
    /\ lastCall.op = PushOp("double")
    /\ lastCall.orphan
    /\ lastCall.ret = SUCCESS
    /\ 1 \in Removed("stream")
    /\ \E s \in DOMAIN streamObj : streamObj[s].log # << >>

\* C5: a stream object is released only when nothing owns it.  Its count of
\* owners is exactly the registry entries, unreleased WriterStates and calls
\* in flight that refer to it, so it is released (count 0) only with none of
\* them; every WriterState still owned refers to an unreleased stream, and
\* every call in flight that holds a stream or a WriterState holds an unreleased
\* one.
C5_NoUseAfterFree ==
    /\ \A s \in DOMAIN streamObj : streamObj[s].rc = StreamOwners(s)
    /\ \A w \in DOMAIN writerObj :
          writerObj[w].rc > 0 => streamObj[writerObj[w].stream].rc > 0
    /\ \A t \in Threads :
          /\ frame[t].pc \in StreamRefPlaces => streamObj[frame[t].ref].rc > 0
          /\ frame[t].pc \in WriterRefPlaces =>
                /\ writerObj[frame[t].ref].rc > 0
                /\ streamObj[writerObj[frame[t].ref].stream].rc > 0

\* A push is in its loop on a writer that has been closed and whose stream
\* has been shut down: the call's reference is the only one left.
C5_Witness ==
    /\ STREAMS = << >>
    /\ WRITERS = << >>
    /\ \E t \in Threads :
          /\ frame[t].pc = "push_loop"
          /\ writerObj[frame[t].ref].rc = 1
          /\ streamObj[writerObj[frame[t].ref].stream].rc = 1

\* The calls that take a handle and fail on one that is not registered.
HandleOps ==
    PushOps \cup {"nominal_flush_channel", "nominal_get_channel_name",
                  "nominal_close_channel", "nominal_create_channel",
                  "nominal_flush", "nominal_shutdown"}

\* The call's pointer and count arguments let it go as far as the registry.
PassesParameterChecks(c) ==
    IF c.op \in PushOps THEN c.args = << "ok", "ok" >> /\ c.n > 0
    ELSE IF c.op = "nominal_get_channel_name" THEN c.args[1] = "ok" /\ c.size > 0
    ELSE IF c.op = "nominal_create_channel" THEN c.args[1] = "ok"
    ELSE TRUE

\* C2 (as stated): every call that takes a handle removed by a successful
\* close / shutdown returns invalid-handle, whatever its other arguments.
C2_StaleAlwaysInvalidHandle ==
    (lastCall.op \in HandleOps /\ lastCall.status = "removed") =>
       lastCall.ret = ERROR_INVALID_HANDLE

\* C2 (amended): a call that takes a removed handle returns invalid-handle
\* whenever its pointer and count arguments pass the checks made before the
\* lookup; otherwise it returns what those checks return, invalid-parameter
\* for a null pointer or a zero-size buffer and success for a push of count 0,
\* and in no case does it reach the object the handle named.
C2_StaleRejectedAtLookup ==
    (lastCall.op \in HandleOps /\ lastCall.status = "removed") =>
       /\ lastCall.ret =
             IF PassesParameterChecks(lastCall) THEN ERROR_INVALID_HANDLE
             ELSE IF lastCall.op \in PushOps /\ lastCall.args = << "ok", "ok" >>
                  THEN SUCCESS
             ELSE ERROR_INVALID_PARAM
       /\ lastCall.i = 0
       /\ lastCall.buf \in {NoBuffer, FreshBuffer(lastCall.size)}

\* A string push of one element with valid pointers on a closed writer
\* handle has returned invalid-handle.
C2_Witness ==
    /\ lastCall.op = PushOp("string")
    /\ lastCall.status = "removed"
    /\ lastCall.args = << "ok", "ok" >>
    /\ lastCall.n = 1
    /\ lastCall.ret = ERROR_INVALID_HANDLE

\* C6 (as stated): a typed push with count 0 returns success whatever the
\* two pointers are.
C6_ZeroCountSucceeds ==
    (lastCall.op \in PushOps /\ lastCall.n = 0) => lastCall.ret = SUCCESS

\* The functions that return a status code, the error accessor excepted.
FallibleOps ==
    PushOps \cup {"nominal_init", "nominal_create_channel", "nominal_close_channel",
                  "nominal_shutdown", "nominal_flush", "nominal_flush_channel",
                  "nominal_get_channel_name", "nominal_get_version"}

\* C7 (as stated): when a fallible call returns, the calling thread's slot
\* holds a message if and only if the returned code is negative.
C7_SlotMatchesCode ==
    lastCall.op \in FallibleOps =>
       (LAST_ERROR[lastCall.thread].some <=> lastCall.ret < 0)

\* The bytes a buffer holds after `bytes` and a terminator were copied to its
\* start and nothing else was stored.
HoldsText(b, bytes) ==
    /\ ~b.oob
    /\ Len(bytes) < Len(b.cells)
    /\ \A k \in DOMAIN b.cells :
          b.cells[k] = IF k <= Len(bytes) THEN bytes[k]
                       ELSE IF k = Len(bytes) + 1 THEN 0
                       ELSE Unwritten

Prefix(bytes, n) == SubSeq(bytes, 1, n)

Untouched(b) == ~b.oob /\ \A k \in DOMAIN b.cells : b.cells[k] = Unwritten

\* What nominal_get_last_error on the thread of call c has to give for the
\* slot of that thread: the generic code and an empty string for an empty
\* slot, else success and the message cut to the capacity less one.
GivesOwnSlot(c) ==
    LET slot == LAST_ERROR[c.thread] IN
    IF slot.some
    THEN /\ c.ret = SUCCESS
         /\ HoldsText(c.buf, Prefix(slot.msg, Min(Len(slot.msg), c.size - 1)))
    ELSE /\ c.ret = ERROR_GENERIC
         /\ HoldsText(c.buf, << >>)

\* C8: the error slot is per thread.  A step changes the slot of a thread
\* only if it is a step of a call of that thread, and nominal_get_last_error
\* gives the calling thread's own slot, not another's.
C8_SlotPerThread ==
    /\ [](lastCall.op = "nominal_get_last_error" /\ lastCall.args[1] = "ok"
             /\ lastCall.size > 0
          => GivesOwnSlot(lastCall))
    /\ [][\A t \in Threads :
             LAST_ERROR'[t] # LAST_ERROR[t] =>
                (frame'[t] # frame[t] \/ lastCall'.thread = t)]_vars

\* Both threads have a message pending, not the same one, and "B" has just
\* read its own in full.
C8_Witness ==
    /\ LAST_ERROR["A"].some
    /\ LAST_ERROR["B"].some
    /\ LAST_ERROR["A"].msg # LAST_ERROR["B"].msg
    /\ lastCall.op = "nominal_get_last_error"
    /\ lastCall.thread = "B"
    /\ lastCall.ret = SUCCESS
    /\ HoldsText(lastCall.buf, LAST_ERROR["B"].msg)

\* C9 (as stated): with a non-null buffer of any capacity c,
\* nominal_get_last_error writes an empty terminated string and reports that
\* no error is pending, or writes the first min(len, c - 1) bytes of the
\* message and a terminator.
C9_AnyCapacity ==
    (lastCall.op = "nominal_get_last_error" /\ lastCall.args[1] = "ok") =>
       GivesOwnSlot(lastCall)

\* C9 (amended): that holds for every capacity c >= 1, the report of "no
\* error pending" being the generic code -1 and a truncated copy returning
\* success; with capacity 0 the call returns invalid-parameter and writes
\* nothing.  The slot is left as it was in both cases.
C9_CapacityAtLeastOne ==
    (lastCall.op = "nominal_get_last_error" /\ lastCall.args[1] = "ok") =>
       IF lastCall.size >= 1 THEN GivesOwnSlot(lastCall)
       ELSE lastCall.ret = ERROR_INVALID_PARAM /\ Untouched(lastCall.buf)

\* A pending message longer than the buffer has been copied, cut to the
\* capacity less one, and the call has returned success.
C9_Witness ==
    /\ lastCall.op = "nominal_get_last_error"
    /\ lastCall.size = MaxSmallBuf
    /\ lastCall.ret = SUCCESS
    /\ LAST_ERROR[lastCall.thread].some
    /\ Len(LAST_ERROR[lastCall.thread].msg) > MaxSmallBuf
    /\ lastCall.buf.cells[MaxSmallBuf] = 0

TextOps == {"nominal_get_last_error", "nominal_get_channel_name", "nominal_get_version"}

\* The text a text-output call that wrote has copied from.
SourceText(c) ==
    IF c.op = "nominal_get_last_error"
    THEN (IF LAST_ERROR[c.thread].some THEN LAST_ERROR[c.thread].msg ELSE << >>)
    ELSE c.text

\* The call wrote into the buffer: it returned success, or it is the error
\* accessor reporting an empty slot.
Wrote(c) ==
    \/ c.ret = SUCCESS
    \/ c.op = "nominal_get_last_error" /\ c.ret = ERROR_GENERIC

\* Never a store at or past index capacity, the terminator inside the buffer
\* after the text cut to fit, nothing written by a call that fails.
WritesInside(c) ==
    /\ ~c.buf.oob
    /\ Wrote(c) => HoldsText(c.buf, Prefix(SourceText(c),
                                          Min(Len(SourceText(c)), c.size - 1)))
    /\ ~Wrote(c) => c.buf \in {NoBuffer, FreshBuffer(c.size)}

\* C10 (as stated): the three text-output functions never write at or past
\* index capacity and put the terminator inside the buffer, and with a
\* buffer of capacity 1 they return invalid-parameter and write nothing.
C10_OneByteRejected ==
    lastCall.op \in TextOps =>
       /\ WritesInside(lastCall)
       /\ (lastCall.args[1] = "ok" /\ lastCall.size = 1) =>
             lastCall.ret = ERROR_INVALID_PARAM /\ Untouched(lastCall.buf)

\* C10 (amended): the three text-output functions never write at or past
\* index capacity and put the terminator inside the buffer, cutting the text
\* without an error; the capacity they reject with invalid-parameter,
\* writing nothing, is 0.  With capacity 1 a call that gets as far as the
\* copy writes the terminator alone.
C10_ZeroBytesRejected ==
    lastCall.op \in TextOps =>
       /\ WritesInside(lastCall)
       /\ (lastCall.args[1] = "ok" /\ lastCall.size = 0) =>
             lastCall.ret = ERROR_INVALID_PARAM /\ Untouched(lastCall.buf)
       /\ (Wrote(lastCall) /\ lastCall.size = 1) => lastCall.buf.cells = << 0 >>
       /\ lastCall.op = "nominal_get_version" =>
             lastCall.ret = IF lastCall.args[1] = "ok" /\ lastCall.size > 0
                            THEN SUCCESS ELSE ERROR_INVALID_PARAM

\* nominal_get_channel_name has cut the name to a buffer smaller than it and
\* returned success.
C10_Witness ==
    /\ lastCall.op = "nominal_get_channel_name"
    /\ lastCall.ret = SUCCESS
    /\ lastCall.size = MaxSmallBuf
    /\ Len(lastCall.text) > MaxSmallBuf - 1
    /\ lastCall.buf.cells[MaxSmallBuf] = 0

\* Every sample of a log that is not the first of its batch comes right
\* after the sample before it in the same batch: the batches in the log are
\* in input order and none has a sample of another between its own.
InOrder(log) ==
    \A k \in DOMAIN log :
       log[k].index > 0 =>
          k > 1 /\ log[k - 1] = [log[k] EXCEPT !.index = @ - 1]

\* The samples of a stream's log pushed through WriterState w.
WriterLog(s, w) == SelectSeq(streamObj[s].log, LAMBDA e : e.writer = w)

\* C11 (as stated): the samples of a batch reach the stream in input order
\* with no sample of a concurrent batch, pushed through another writer of
\* the stream, between them.
C11_BatchContiguousInStream ==
    \A s \in DOMAIN streamObj : InOrder(streamObj[s].log)

\* C12: pushes through one writer handle are serialized by the WriterState
\* lock.  No two threads hold the same lock, a thread in the push loop holds
\* the lock of its writer, and in the samples pushed through one writer the
\* batches do not interleave: each batch's samples are together and in
\* input order, the batch of the thread that took the lock first coming
\* first.
C12_SameWriterSerialized ==
    /\ \A t, u \in Threads : t # u => held[t] \cap held[u] = {}
    /\ \A t \in Threads :
          frame[t].pc = "push_loop" => WriterLock(frame[t].ref) \in held[t]
    /\ \A t, u \in Threads :
          (/\ frame[t].pc = "push_loop"
           /\ frame[u].pc = "push_lock"
           /\ frame[u].ref = frame[t].ref) => frame[u].i = 0
    /\ \A s \in DOMAIN streamObj : \A w \in DOMAIN writerObj :
          InOrder(WriterLog(s, w))

\* Both threads have pushed a whole batch through the same writer.
C12_Witness ==
    /\ MaxCount > 1
    /\ \E s \in DOMAIN streamObj :
          LET log == streamObj[s].log IN
          /\ Len(log) = 2 * MaxCount
          /\ \A k \in DOMAIN log : log[k].writer = log[1].writer
          /\ log[1].thread # log[Len(log)].thread

\* C13: in a fresh process the scenario's calls each return success, the
\* stream handle is 1 and the writer handle is 1, and once the scenario is
\* complete both registries are empty and every later call on either handle
\* reports it invalid.
C13_EndToEnd ==
    script.step >= 0 =>
       /\ \A k \in DOMAIN script.rets : script.rets[k] = SUCCESS
       /\ script.step >= 1 => script.stream = 1
       /\ script.step >= 2 => script.writer = 1
       /\ script.step >= ScenarioLength =>
             /\ STREAMS = << >>
             /\ WRITERS = << >>
       /\ (script.step > ScenarioLength /\ lastCall.h = 1) =>
             /\ lastCall.op \in {"nominal_is_stream_valid", "nominal_is_writer_valid"}
                   => lastCall.ret = 0
             /\ (lastCall.op \in HandleOps /\ PassesParameterChecks(lastCall))
                   => lastCall.ret = ERROR_INVALID_HANDLE
       /\ (script.step > ScenarioLength
             /\ lastCall.op \in {"nominal_get_active_streams",
                                 "nominal_get_active_writers"}) => lastCall.ret = 0

\* The six calls have been made in order and a push through writer handle 1
\* made after them has returned invalid-handle.
C13_Witness ==
    /\ script.step = ScenarioLength + 1
    /\ Len(script.rets) = ScenarioLength
    /\ lastCall.op = "nominal_push_double_batch"
    /\ lastCall.h = 1
    /\ lastCall.ret = ERROR_INVALID_HANDLE

\* The segments of a tag string, read off the positions of its commas: the
\* k-th lies between the (k-1)-th comma and the k-th.
CommaAt(s) == {i \in DOMAIN s : s[i] = 44} \cup {0, Len(s) + 1}

SegmentEnds(s) ==
    {b \in CommaAt(s) \X CommaAt(s) :
        b[1] < b[2] /\ \A i \in CommaAt(s) : ~(b[1] < i /\ i < b[2])}

\* A string without the white space at its two ends: from its first
\* character that is not white space to its last.
Stripped(x) ==
    LET solid == {i \in DOMAIN x : x[i] \notin WhiteSpace}
    IN  IF solid = {} THEN << >>
        ELSE SubSeq(x, CHOOSE i \in solid : \A j \in solid : i <= j,
                       CHOOSE i \in solid : \A j \in solid : j <= i)

\* The pair a segment s[b[1]+1 .. b[2]-1] with exactly one '=' stands for.
PairOf(s, b) ==
    LET eq == CHOOSE i \in (b[1] + 1)..(b[2] - 1) : s[i] = 61
    IN  << Stripped(SubSeq(s, b[1] + 1, eq - 1)), Stripped(SubSeq(s, eq + 1, b[2] - 1)) >>

Kept(s) ==
    {b \in SegmentEnds(s) :
        Cardinality({i \in (b[1] + 1)..(b[2] - 1) : s[i] = 61}) = 1}

\* C14: parse_tags_csv returns one pair for each comma-separated segment
\* that has exactly one '=', in the order of the segments, the key and the
\* value with the white space at their ends removed; the other segments give
\* nothing, and the empty string gives no pair.
C14_ParseTags ==
    lastCall.op = "parse_tags_csv" =>
       LET s == lastCall.text
           pairs == lastCall.args
       IN  /\ Len(pairs) = Cardinality(Kept(s))
           /\ \A b \in Kept(s) :
                 pairs[Cardinality({c \in Kept(s) : c[1] < b[1]}) + 1] = PairOf(s, b)
           /\ s = << >> => pairs = << >>

\* "a =a," : one pair (a, a), trimmed, and one segment dropped.
C14_Witness ==
    /\ lastCall.op = "parse_tags_csv"
    /\ lastCall.text = << 97, 32, 61, 97, 44 >>
    /\ lastCall.args = << << << 97 >>, << 97 >> >> >>

\* The last k entries of a log, and the first k samples of a batch pushed by
\* thread t through WriterState w.
LastOf(log, k) == SubSeq(log, Len(log) - k + 1, Len(log))

BatchSamples(op, w, t, k) ==
    [j \in 1..k |-> [op |-> op, writer |-> w, thread |-> t, index |-> j - 1]]

\* The decimal text of an index below 10: its one digit.
IndexText(i) == << 48 + i >>

\* The log of the stream of WriterState w, restricted to w.
LogOf(w) == WriterLog(writerObj[w].stream, w)

\* C15: a string batch of n > 0 elements on a valid writer stops at the
\* first invalid element, index i: it returns invalid-parameter with a
\* message naming i, the elements 0..i-1 are the last samples pushed through
\* the writer, in order, the failing step pushes nothing and no sample is
\* ever taken back; with no invalid element the n samples are pushed and the
\* call returns success.
C15_StringBatchPartial ==
    /\ [](\A t \in Threads :
            frame[t].pc = "push_loop" =>
               /\ frame[t].i <= frame[t].n
               /\ frame[t].i <= Len(LogOf(frame[t].ref))
               /\ LastOf(LogOf(frame[t].ref), frame[t].i)
                     = BatchSamples(frame[t].op, frame[t].ref, t, frame[t].i))
    /\ []((/\ lastCall.op = PushOp("string")
           /\ lastCall.status = "live"
           /\ lastCall.args = << "ok", "ok" >>
           /\ lastCall.n > 0) =>
             LET w == WRITERS[lastCall.h]
                 err == LAST_ERROR[lastCall.thread]
             IN  /\ lastCall.i <= Len(LogOf(w))
                 /\ LastOf(LogOf(w), lastCall.i)
                       = BatchSamples(lastCall.op, w, lastCall.thread, lastCall.i)
                 /\ \/ /\ lastCall.ret = SUCCESS
                       /\ lastCall.i = lastCall.n
                       /\ ~err.some
                    \/ /\ lastCall.ret = ERROR_INVALID_PARAM
                       /\ lastCall.i < lastCall.n
                       /\ lastCall.i < 10
                       /\ err.some
                       /\ \E cause \in {c_str_to_string_err(k) : k \in {"null", "bad"}} :
                             err.msg = TxtInvalidStringAt \o IndexText(lastCall.i)
                                          \o TxtColonSpace \o cause)
    /\ [][/\ \A s \in DOMAIN streamObj :
                /\ Len(streamObj'[s].log) >= Len(streamObj[s].log)
                /\ SubSeq(streamObj'[s].log, 1, Len(streamObj[s].log)) = streamObj[s].log
          /\ (lastCall'.op = PushOp("string") /\ lastCall'.ret # SUCCESS) =>
                \A s \in DOMAIN streamObj : streamObj'[s].log = streamObj[s].log
         ]_vars

\* A string batch of two has failed at its second element: the message names
\* index 1 and the first element is the last sample of the writer.
C15_Witness ==
    /\ lastCall.op = PushOp("string")
    /\ lastCall.ret = ERROR_INVALID_PARAM
    /\ lastCall.n = MaxCount
    /\ lastCall.i = 1
    /\ LAST_ERROR[lastCall.thread].msg =
          TxtInvalidStringAt \o << 49 >> \o TxtColonSpace \o TxtNullPointer
    /\ LogOf(WRITERS[lastCall.h]) # << >>

\* ----------------------------------------------------------------- flushes
FlushOps == {"nominal_flush", "nominal_flush_channel"}

\* The step returns from a flush call that had resolved its handle to stream
\* object s.
FlushReturns(s) ==
    \E t \in Threads :
        /\ frame[t].pc \in {"flush_block", "fc_block"}
        /\ Flushing(t) = s
        /\ lastCall'.thread = t

C17_FlushChannelWholeStream ==
    [][\A t \in Threads :
          frame[t].pc \in {"flush_block", "fc_block"} /\ lastCall'.thread = t =>
              LET s == Flushing(t)
                  fl == lastCall'.flush
              IN  /\ fl.stream = s
                  /\ fl.upto = Len(streamObj[s].log)
                  /\ lastCall'.ret = IF fl.ok THEN SUCCESS ELSE ERROR_RUNTIME
                  /\ fl.ok => /\ engine'.flushed[s] = Len(streamObj'[s].log)
                              /\ LAST_ERROR'[t] = LAST_ERROR[t]
                  /\ ~fl.ok =>
                        /\ engine'.flushed[s] = engine.flushed[s]
                        /\ LAST_ERROR'[t] =
                              Some((IF lastCall'.op = "nominal_flush"
                                    THEN TxtFlushFailed
                                    ELSE TxtChannelFlushFailed) \o TxtEngineError)
                  /\ STREAMS' = STREAMS
                  /\ WRITERS' = WRITERS
                  /\ NEXT_STREAM_HANDLE' = NEXT_STREAM_HANDLE
                  /\ NEXT_WRITER_HANDLE' = NEXT_WRITER_HANDLE]_vars

\* A flush through a writer whose stream handle was shut down succeeded and
\* covered the samples of two writers.
C17_Witness ==
    /\ lastCall.op = "nominal_flush_channel"
    /\ lastCall.orphan
    /\ lastCall.ret = SUCCESS
    /\ lastCall.flush.upto = 2
    /\ engine.flushed[lastCall.flush.stream] = 2
    /\ Cardinality({streamObj[lastCall.flush.stream].log[k].writer :
                       k \in 1..Len(streamObj[lastCall.flush.stream].log)}) = 2


\* ------------------------------------------------------------------- locks
RegistryLocks == {STREAMS_lock, WRITERS_lock}

\* A thread inside a push loop or blocked in a bridge call.
LongPlaces == {"init_build", "push_loop", "flush_block", "fc_block"}

\* A thread waiting for a WriterState lock, and the lock it waits for.
LockPlaces == {"push_lock", "fc_lock", "name_lock"}
Waits(t, l) == frame[t].pc \in LockPlaces /\ l = WriterLock(frame[t].ref)

\* C18: a thread inside a push loop or blocked in a bridge call (stream
\* construction, flush) holds neither registry lock, so whatever it does
\* from there on, the other thread's nominal_close_channel, nominal_shutdown,
\* nominal_is_*_valid, nominal_get_active_* and each step of its
\* nominal_create_channel can be taken at once.
C18_RegistryNeverBlocked ==
    \A t \in Threads :
        frame[t].pc \in LongPlaces =>
            /\ held[t] \cap RegistryLocks = {}
            /\ \A u \in Threads \ {t} :
                  /\ CanCall(u) =>
                        /\ ENABLED CallCloseChannel(u, WriterHandles)
                        /\ ENABLED CallShutdown(u, {1})
                        /\ ENABLED CallIsValid(u, {1})
                        /\ ENABLED CallGetActive(u)
                  /\ (/\ CanCall(u)
                      /\ Len(writerObj) + Cardinality(At({"cc_parse", "cc_insert"}))
                            < MaxWriters) =>
                        ENABLED CallCreateChannel(u, MaxWriters, {1}, {"ok"})
                  /\ frame[u].pc = "cc_parse" =>
                        ENABLED CreateParse(u, {"ok"}, ChannelNames, {"null"})
                  /\ frame[u].pc = "cc_insert" => ENABLED CreateInsert(u)

\* One thread is blocked in a flush through a writer while the other has
\* just closed that writer.
C18_Witness ==
    /\ frame["A"].pc = "fc_block"
    /\ lastCall.op = "nominal_close_channel"
    /\ lastCall.thread = "B"
    /\ lastCall.ret = SUCCESS
    /\ lastCall.h = frame["A"].h

\* C19: a thread holds at most one lock, and none where it is about to take
\* one: it holds a WriterState lock only inside the push loop and inside
\* the flush of nominal_flush_channel, where it takes no other.  A thread
\* waiting for a lock therefore holds none and no two threads wait for each
\* other.  With every engine flush and construction completing, every call
\* returns.
C19_NoDeadlock ==
    /\ [](\A t \in Threads :
            /\ Cardinality(held[t]) <= 1
            /\ held[t] # {} => frame[t].pc \in {"push_loop", "fc_block"}
            /\ \A u \in Threads \ {t} :
                  ~(\E l, m \in held[t] \cup held[u] :
                        /\ Waits(t, l) /\ l \in held[u]
                        /\ Waits(u, m) /\ m \in held[t]))
    /\ \A t \in Threads : (frame[t].pc # "idle") ~> (frame[t].pc = "idle")

\* One thread waits for the WriterState lock the other holds while pushing.
C19_Witness ==
    \E t \in Threads, u \in Threads :
        /\ frame[t].pc = "push_loop"
        /\ frame[u].pc \in LockPlaces
        /\ WriterLock(frame[u].ref) \in held[t]

\* C20: a thread blocked in a bridge invocation (stream construction, flush)
\* holds no lock, so that nothing waits for a flush in progress.
C20_NoLockAcrossBridge ==
    \A t \in Threads :
        frame[t].pc \in {"init_build", "flush_block", "fc_block"} =>
            /\ held[t] = {}
            /\ \A u \in Threads \ {t} :
                  frame[u].pc \in {"push_lock", "name_lock"} =>
                      LockFree(u, WriterLock(frame[u].ref))


\* ---------------------------------------------------------- failing calls
CreateOps == {"nominal_init", "nominal_create_channel"}

CreateClass(op) == IF op = "nominal_init" THEN "stream" ELSE "writer"

NextHandle(c) == IF c = "stream" THEN NEXT_STREAM_HANDLE ELSE NEXT_WRITER_HANDLE

\* Threads between the allocation of a handle and its insert.
InsertPlaces == {"init_insert", "cc_insert"}

\* C21: the step in which a call returns a negative code changes neither
\* registry, neither counter, no stream's samples and no other thread's
\* error slot; a failing nominal_init or nominal_create_channel has taken no
\* handle value and written no output handle.  A counter changes only in
\* the step that takes a call to its insert, a call at its insert returns
\* success, and a registry changes only in a step that returns success.  So
\* the k-th allocation of a class yields k, the handles returned by
\* successful creates are the first allocations once no create is between
\* allocation and insert, and every key of a registry is below its class's
\* counter.  (Samples a string batch has pushed before its failing element
\* stay pushed, and of two concurrent creates the one that allocated later
\* may return first.)
C21_FailureFrame ==
    /\ [](/\ (lastCall.ret < 0 /\ lastCall.op \in CreateOps) =>
                 lastCall.out = 0 /\ lastCall.handle = 0
          /\ \A c \in Classes :
                /\ \A h \in DOMAIN Registry(c) : h < NextHandle(c)
                /\ \A k \in DOMAIN allocated[c] : allocated[c][k] = k
                /\ NextHandle(c) = Len(allocated[c]) + 1
                /\ At(InsertPlaces) = {} =>
                      Handles(issued[c]) = 1..Len(allocated[c]))
    /\ [][/\ lastCall'.ret < 0 =>
                 /\ UNCHANGED << regVars, histVars >>
                 /\ Len(streamObj') = Len(streamObj)
                 /\ \A s \in DOMAIN streamObj : streamObj'[s].log = streamObj[s].log
                 /\ \A u \in Threads \ {lastCall'.thread} :
                       LAST_ERROR'[u] = LAST_ERROR[u]
          /\ << NEXT_STREAM_HANDLE, NEXT_WRITER_HANDLE >>' #
                 << NEXT_STREAM_HANDLE, NEXT_WRITER_HANDLE >> =>
                 \E t \in Threads : /\ frame[t].pc \notin InsertPlaces
                                     /\ frame'[t].pc \in InsertPlaces
          /\ \A t \in Threads :
                 frame[t].pc \in InsertPlaces /\ lastCall'.thread = t =>
                     lastCall'.ret = SUCCESS
          /\ << STREAMS, WRITERS >>' # << STREAMS, WRITERS >> =>
                 lastCall'.op # "none" /\ lastCall'.ret = SUCCESS]_vars

\* A nominal_create_channel has failed at the channel name, after a writer
\* was created: the counter still has the value the first create left.
C21_Witness ==
    /\ lastCall.op = "nominal_create_channel"
    /\ lastCall.ret = ERROR_INVALID_PARAM
    /\ lastCall.status = "live"
    /\ lastCall.args[1] = "ok"
    /\ 1 \in DOMAIN WRITERS
    /\ NEXT_WRITER_HANDLE = 2

\* C21 as stated: a call that has returned a negative code has delivered no
\* sample, and the k-th successful create to return has returned k.
C21_FailureChangesNothing ==
    /\ lastCall.ret < 0 => lastCall.i = 0
    /\ (lastCall.op \in CreateOps /\ lastCall.ret = SUCCESS) =>
          lastCall.out = Cardinality(issued[CreateClass(lastCall.op)])


\* ------------------------------------------------------- push versus close
NumericPushOps == {PushOp(k) : k \in {"double", "int64", "bool"}}

PushPlaces == {"push_lock", "push_loop"}

\* C22: a numeric push with valid arrays and count > 0 goes on past its
\* lookup exactly if the handle is in WRITERS at that step; otherwise it
\* returns invalid-handle in that step and no stream's samples change.  A
\* push that went on returns success only, with its count samples as the
\* writer's last samples in input order, whatever close and shutdown have
\* done meanwhile.  While it is in flight the WriterState and its stream are
\* not released and the other thread's close can be taken at once.
C22_PushCloseAllOrNothing ==
    /\ [](\A t \in Threads :
            frame[t].pc \in PushPlaces =>
               /\ writerObj[frame[t].ref].rc >= 1
               /\ streamObj[writerObj[frame[t].ref].stream].rc >= 1
               /\ \A u \in Threads \ {t} :
                     CanCall(u) => ENABLED CallCloseChannel(u, {1}))
    /\ [][\A t \in Threads :
            /\ (/\ frame[t].pc = "idle"
                /\ (frame'[t].op \in NumericPushOps
                       \/ (lastCall'.thread = t /\ lastCall'.op \in NumericPushOps))) =>
                  LET h == IF frame'[t].pc = "idle" THEN lastCall'.h ELSE frame'[t].h IN
                  IF h \in DOMAIN WRITERS
                  THEN /\ frame'[t].pc = "push_lock"
                       /\ frame'[t].ref = WRITERS[h]
                  ELSE /\ lastCall'.thread = t
                       /\ lastCall'.ret = ERROR_INVALID_HANDLE
                       /\ lastCall'.i = 0
                       /\ streamObj' = streamObj
            /\ (/\ frame[t].pc \in PushPlaces
                /\ frame[t].op \in NumericPushOps
                /\ lastCall'.thread = t) =>
                  /\ lastCall'.ret = SUCCESS
                  /\ lastCall'.i = lastCall'.n
                  /\ LastOf(LogOf(frame[t].ref), frame[t].n)
                        = BatchSamples(frame[t].op, frame[t].ref, t, frame[t].n)]_vars

\* A batch of numbers has returned success with all its samples delivered
\* after its writer was closed and its stream shut down during the push; the
\* WriterState and the stream are released now.
C22_Witness ==
    /\ lastCall.op \in NumericPushOps
    /\ lastCall.ret = SUCCESS
    /\ lastCall.status = "live"
    /\ lastCall.i = MaxCount
    /\ lastCall.h \in Removed("writer")
    /\ 1 \in Removed("stream")
    /\ \A t \in Threads : frame[t].pc = "idle"
    /\ Len(writerObj) = 1 /\ writerObj[1].rc = 0
    /\ streamObj[1].rc = 0
    /\ Len(streamObj[1].log) = MaxCount

=============================================================================
